---- MODULE Spec2Model ----
(***************************************************************************)
(* Genesis transactions of the pre-genesis chain setup: validation of a    *)
(* batch of established-account, validator-account and bond transactions   *)
(* (apps/src/lib/config/genesis/transactions.rs), and the threshold        *)
(* signature check of a signed bond.                                       *)
(***************************************************************************)
EXTENDS Integers, Sequences, FiniteSets, TLC

VARIABLES
    \* arguments of validate
    transactions, vps, balances, parameters,
    \* locals of validate
    pc, i, is_valid, all_used_addresses, established_accounts,
    validator_accounts, token_balances, validated_vec, validated_bonds,
    result,
    \* what each call of validate_established_account,
    \* validate_validator_account and validate_bond returned, in call order
    ea_returned, va_returned, bond_returned,
    \* arguments and result of one call of SignedBondTx::verify_sig
    vs_data, vs_signatures, vs_pks, vs_threshold, vs_result,
    \* signing of a bond: position, the wallet, the established_accounts
    \* argument, the unsigned bond, the signed bond, the calls of
    \* SignedBondTx::sign so far, the bond as it was before its data was
    \* changed, and the outcome of verify_sig on it
    sg_pc, sg_wallet, sg_established, sg_unsigned, sg_signed, sg_calls,
    sg_tampered, sg_verified,
    \* signing of a validator-account tx: the validator wallet, the unsigned
    \* tx, the signed tx, the field changed after signing, and the
    \* diagnostics of validate_validator_account on it
    sv_wallet, sv_unsigned, sv_signed, sv_tampered, sv_errors,
    \* Transactions values at hand: self, and the arguments of merge; the
    \* votes_per_token argument; the calls of merge so far; what
    \* has_at_least_one_validator returned; what
    \* has_validator_with_positive_voting_power was called on and returned
    tx_self, tx_other, tx_third, tx_votes_per_token, tx_merges,
    tx_has_validator, tx_positive_power,
    \* arguments and result of init_established_account
    ia_args, ia_result,
    \* SleepStrategy::run and SleepStrategy::timeout: the strategy, the
    \* deadline (None for run), the attempt at which the task signals
    \* completion (0: never), the clock, the backoff local of run, the
    \* position, the instant the sleep ends, the attempts started, the
    \* returned value, the instant an attempt signalled completion, and the
    \* durations of the sleeps started (of the first MaxAttempts of them)
    sl_strategy, sl_deadline, sl_breaks_at, sl_now, sl_backoff, sl_pc,
    sl_wake, sl_attempts, sl_result, sl_completed_at, sl_sleeps,
    \* sign_txs: the unsigned batch, the wallet, the validator wallet, and
    \* what the call came to
    st_txs, st_wallet, st_validator_wallet, st_result,
    \* the parameters in storage: the storage, the argument of init_storage,
    \* the calls of init_storage and of the update functions so far, and
    \* what read was called on and returned
    ps_storage, ps_parameters, ps_calls, ps_read

valVars == <<transactions, vps, balances, parameters, pc, i, is_valid,
             all_used_addresses, established_accounts, validator_accounts,
             token_balances, validated_vec, validated_bonds, result,
             ea_returned, va_returned, bond_returned>>
sigVars == <<vs_data, vs_signatures, vs_pks, vs_threshold, vs_result>>
signVars == <<sg_pc, sg_wallet, sg_established, sg_unsigned, sg_signed,
              sg_calls, sg_tampered, sg_verified, sv_wallet, sv_unsigned,
              sv_signed, sv_tampered, sv_errors>>
txVars == <<tx_self, tx_other, tx_third, tx_votes_per_token, tx_merges,
            tx_has_validator, tx_positive_power, ia_args, ia_result>>
sleepVars == <<sl_strategy, sl_deadline, sl_breaks_at, sl_now, sl_backoff,
               sl_pc, sl_wake, sl_attempts, sl_result, sl_completed_at,
               sl_sleeps>>
stVars == <<st_txs, st_wallet, st_validator_wallet, st_result>>
psVars == <<ps_storage, ps_parameters, ps_calls, ps_read>>
vars == <<valVars, sigVars, signVars, txVars, sleepVars, stVars, psVars>>

----------------------------------------------------------------------------
(* Bounds of the model *)

\* longest list of established-account txs in a batch
MaxEstablished == 2
\* longest list of validator-account txs in a batch
MaxValidators == 2
\* longest list of bonds in a batch
MaxBonds == 2
\* longest short key list of an established account (long ones are U8_MAX
\* and U8_MAX + 1 keys long)
MaxKeys == 2
\* largest small threshold of an established account
MaxThreshold == 3
\* longest signature list of a bond
MaxSigs == 2
\* most calls of SignedBondTx::sign on one bond
MaxSignCalls == 2
\* most calls of Transactions::merge on one batch
MaxMerges == 2

(* Program constants *)
U8_MAX == 255
NATIVE_MAX_DECIMAL_PLACES == 6
\* stands for the largest token::Amount, 2^256 - 1
UintMax == 100000000

----------------------------------------------------------------------------
(* Option<T>: None is the empty sequence, Some(x) the one-element sequence *)
None == << >>
Some(x) == <<x>>
IsSome(o) == Len(o) = 1
Unwrap(o) == o[1]

\* the sequences over S of length at most n
SeqsUpTo(S, n) == UNION {[1..k -> S] : k \in 0..n}

\* a map (BTreeMap) with entry k set to v
MapInsert(m, k, v) ==
    [x \in DOMAIN m \cup {k} |-> IF x = k THEN v ELSE m[x]]
\* a map (BTreeMap) with entry k removed
MapRemove(m, k) == [x \in DOMAIN m \ {k} |-> m[x]]
EmptyMap == [x \in {} |-> 0]

Keys == {"k1", "k2"}

----------------------------------------------------------------------------
(* Signatures and addresses *)

\* standalone_signature: the signature of `data` by the secret key of `pk`
standalone_signature(pk, data) == [signer |-> pk, msg |-> data]

\* verify_standalone_sig(data, pk, sig).is_ok()
verify_standalone_sig(data, pk, sig) == sig.signer = pk /\ sig.msg = data

\* sign_tx: a standalone signature over the tx data
sign_tx(tx_data, keypair) == standalone_signature(keypair, tx_data)

SALT == "established-account-tx"

\* DeriveEstablishedAddress::derive_established_address: the hash of the
\* salt and the serialized tx, collision-free
derive_established_address(tx) == [salt |-> SALT, preimage |-> tx]

\* DeriveEstablishedAddress::derive_address: the derived established
\* address as an Address (every Address of the model is an established one;
\* the variant tag is left out)
derive_address(tx) == derive_established_address(tx)

\* GenesisAddress::EstablishedAddress(address)
EstablishedAddress(address) == [kind |-> "EstablishedAddress", val |-> address]
\* GenesisAddress::PublicKey(pk)
PublicKey(pk) == [kind |-> "PublicKey", val |-> pk]

----------------------------------------------------------------------------
(* Pass 1: validate_established_account *)

\* vps.map(|vps| vps.wasm.contains_key(&vp)).unwrap_or_default()
VpExists(vps_, vp) == IsSome(vps_) /\ vp \in Unwrap(vps_)

\* tx.threshold == 0
ThresholdIsZero(tx) == tx.threshold = 0
\* variant with a fault: >= for >
ThresholdAboveKeys_ge(tx) == tx.threshold >= Len(tx.public_keys)
\* tx.threshold as usize > tx.public_keys.len()
ThresholdAboveKeys(tx) == tx.threshold > Len(tx.public_keys)
\* tx.public_keys.len() > u8::MAX as usize
TooManyPublicKeys(tx) == Len(tx.public_keys) > U8_MAX

\* variant with a fault: a duplicate address is not looked for
EstablishedErrors_nodup(tx, vps_, used) ==
    {e \in {"zero_threshold", "threshold_above_keys", "too_many_keys",
            "vp_not_found", "no_public_keys"} :
        \/ e = "zero_threshold" /\ ThresholdIsZero(tx)
        \/ e = "threshold_above_keys" /\ ThresholdAboveKeys(tx)
        \/ e = "too_many_keys" /\ TooManyPublicKeys(tx)
        \/ e = "vp_not_found" /\ ~VpExists(vps_, tx.vp)
        \/ e = "no_public_keys" /\ tx.public_keys = << >>}

\* the diagnostics validate_established_account prints for tx
EstablishedErrors(tx, vps_, used) ==
    {e \in {"zero_threshold", "threshold_above_keys", "too_many_keys",
            "duplicate_address", "vp_not_found", "no_public_keys"} :
        \/ e = "zero_threshold" /\ ThresholdIsZero(tx)
        \/ e = "threshold_above_keys" /\ ThresholdAboveKeys(tx)
        \/ e = "too_many_keys" /\ TooManyPublicKeys(tx)
        \/ e = "duplicate_address" /\ derive_address(tx) \in used
        \/ e = "vp_not_found" /\ ~VpExists(vps_, tx.vp)
        \/ e = "no_public_keys" /\ tx.public_keys = << >>}

\* variant with a fault: only a valid tx is put in the registry
validate_established_account_validonly(tx, vps_, used, accounts) ==
    LET established_address == derive_address(tx)
        errors == EstablishedErrors(tx, vps_, used)
    IN  [is_valid |-> errors = {},
         errors |-> errors,
         address |-> established_address,
         all_used_addresses |->
            IF established_address \in used THEN used
            ELSE used \cup {established_address},
         established_accounts |->
            IF errors = {}
            THEN MapInsert(accounts, established_address,
                           <<tx.public_keys, tx.threshold>>)
            ELSE accounts]

\* validate_established_account: the returned is_valid, the diagnostics
\* printed, and the two accumulators after the call
validate_established_account(tx, vps_, used, accounts) ==
    LET established_address == derive_address(tx)
        errors == EstablishedErrors(tx, vps_, used)
    IN  [is_valid |-> errors = {},
         errors |-> errors,
         address |-> established_address,
         all_used_addresses |->
            IF established_address \in used THEN used
            ELSE used \cup {established_address},
         established_accounts |->
            MapInsert(accounts, established_address,
                      <<tx.public_keys, tx.threshold>>)]

----------------------------------------------------------------------------
(* Pass 2: validate_validator_account *)

Roles == <<"consensus_key", "protocol_key", "tendermint_node_key",
           "eth_hot_key", "eth_cold_key">>

\* From<&SignedValidatorAccountTx> for UnsignedValidatorAccountTx: every
\* SignedPk is replaced by its pk
Unsigned(tx) ==
    [address |-> tx.address,
     vp |-> tx.vp,
     commission_rate |-> tx.commission_rate,
     max_commission_rate_change |-> tx.max_commission_rate_change,
     metadata |-> tx.metadata,
     net_address |-> tx.net_address,
     consensus_key |-> tx.consensus_key.pk,
     protocol_key |-> tx.protocol_key.pk,
     tendermint_node_key |-> tx.tendermint_node_key.pk,
     eth_hot_key |-> tx.eth_hot_key.pk,
     eth_cold_key |-> tx.eth_cold_key.pk]

\* validate_signature(tx_data, pk, sig)
validate_signature(tx_data, pk, sig) == verify_standalone_sig(tx_data, pk, sig)

\* the SignedPk of a role of a signed validator tx
RoleKey(tx, role) ==
    CASE role = "consensus_key" -> tx.consensus_key
      [] role = "protocol_key" -> tx.protocol_key
      [] role = "tendermint_node_key" -> tx.tendermint_node_key
      [] role = "eth_hot_key" -> tx.eth_hot_key
      [] role = "eth_cold_key" -> tx.eth_cold_key

\* variant with a fault: the authorization of a role is checked only when
\* those of the roles before it verified (the checks are chained)
RoleAuthorizationFails_chained(tx, role) ==
    LET n == CHOOSE k \in 1..5 : Roles[k] = role
    IN  /\ \A k \in 1..(n - 1) :
              validate_signature(Unsigned(tx), RoleKey(tx, Roles[k]).pk,
                                 RoleKey(tx, Roles[k]).authorization)
        /\ ~validate_signature(Unsigned(tx), RoleKey(tx, role).pk,
                               RoleKey(tx, role).authorization)

\* !validate_signature(&unsigned, &tx.<role>.pk.raw,
\*                     &tx.<role>.authorization.raw)
RoleAuthorizationFails(tx, role) ==
    ~validate_signature(Unsigned(tx), RoleKey(tx, role).pk,
                        RoleKey(tx, role).authorization)

\* variant with a fault: the established account is not looked up
ValidatorErrors_noaccount(tx, vps_, used, validators) ==
    {e \in {"duplicate_validator", "vp_not_found"} :
        \/ e = "duplicate_validator" /\ tx.address \in validators
        \/ e = "vp_not_found" /\ ~VpExists(vps_, tx.vp)}
    \cup {Roles[k] : k \in {n \in 1..5 : RoleAuthorizationFails(tx, Roles[n])}}

\* variant with a fault: a duplicate validator is not looked for
ValidatorErrors_nodup(tx, vps_, used, validators) ==
    {e \in {"no_established_account", "vp_not_found"} :
        \/ e = "no_established_account" /\ tx.address \notin used
        \/ e = "vp_not_found" /\ ~VpExists(vps_, tx.vp)}
    \cup {Roles[k] : k \in {n \in 1..5 : RoleAuthorizationFails(tx, Roles[n])}}

\* the diagnostics validate_validator_account prints for tx
ValidatorErrors(tx, vps_, used, validators) ==
    {e \in {"no_established_account", "duplicate_validator", "vp_not_found"} :
        \/ e = "no_established_account" /\ tx.address \notin used
        \/ e = "duplicate_validator" /\ tx.address \in validators
        \/ e = "vp_not_found" /\ ~VpExists(vps_, tx.vp)}
    \cup {Roles[k] : k \in {n \in 1..5 : RoleAuthorizationFails(tx, Roles[n])}}

\* validate_validator_account: the returned is_valid, the diagnostics printed
\* and the validator set after the call
validate_validator_account(tx, vps_, used, validators) ==
    LET established_address == tx.address
        errors == ValidatorErrors(tx, vps_, used, validators)
    IN  [is_valid |-> errors = {},
         errors |-> errors,
         address |-> established_address,
         validator_accounts |->
            IF established_address \in validators THEN validators
            ELSE validators \cup {established_address}]

----------------------------------------------------------------------------
(* SignedBondTx::verify_sig *)

\* BondTx::data_to_sign: the serialized source, validator and amount
\* variant with a fault: the amount is not part of the signed data
data_to_sign_noamount(data) == <<data.source, data.validator>>

data_to_sign(data) == <<data.source, data.validator, data.amount>>

\* variant with a fault: only the first signature is tried
AnySigVerifies_first(data, pk, signatures) ==
    /\ signatures # << >>
    /\ verify_standalone_sig(data_to_sign(data), pk, signatures[1])

\* signatures.iter().any(|sig| verify_standalone_sig(&data.data_to_sign(),
\*                                                   pk, &sig.raw).is_ok())
AnySigVerifies(data, pk, signatures) ==
    \E n \in 1..Len(signatures) :
        verify_standalone_sig(data_to_sign(data), pk, signatures[n])

\* the number of verify_standalone_sig calls `any` makes: it stops at the
\* first signature that verifies
AnySigCalls(data, pk, signatures) ==
    IF AnySigVerifies(data, pk, signatures)
    THEN CHOOSE n \in 1..Len(signatures) :
            /\ verify_standalone_sig(data_to_sign(data), pk, signatures[n])
            /\ \A m \in 1..(n - 1) :
                 ~verify_standalone_sig(data_to_sign(data), pk, signatures[m])
    ELSE Len(signatures)

\* variant with a fault: >= for >
TooManyKeys_ge(pks) == Len(pks) >= U8_MAX
\* pks.len() > u8::MAX as usize
TooManyKeys(pks) == Len(pks) > U8_MAX

\* the candidate keys, by position, that `any` finds a valid signature for
Satisfied(self, pks) ==
    {m \in 1..Len(pks) : AnySigVerifies(self.data, pks[m], self.signatures)}

\* the u8 counter valid_sigs after the iteration of `for pk in pks` on pks[n]
ValidSigsAfter(self, pks, n) ==
    Cardinality(Satisfied(self, pks) \cap 1..n) % (U8_MAX + 1)

\* the iteration at which `for pk in pks` ends: the first one after which
\* valid_sigs >= threshold (the break), or the last one
LoopEnd(self, pks, threshold) ==
    IF \E n \in 1..Len(pks) : ValidSigsAfter(self, pks, n) >= threshold
    THEN CHOOSE n \in 1..Len(pks) :
            /\ ValidSigsAfter(self, pks, n) >= threshold
            /\ n > 1 => ValidSigsAfter(self, pks, n - 1) < threshold
    ELSE Len(pks)

\* the loop `for pk in pks`: the counter valid_sigs at its end, and the
\* signature verifications made, as (key position, signature position)
verify_sig_loop(self, pks, threshold) ==
    LET end == LoopEnd(self, pks, threshold)
    IN  [valid_sigs |-> ValidSigsAfter(self, pks, end),
         calls |-> UNION {{<<m, n>> :
                            n \in 1..AnySigCalls(self.data, pks[m],
                                                 self.signatures)} :
                          m \in 1..end}]

\* variant with a fault: the fields of ThresholdNotMet are swapped
verify_sig_swapped(self, pks, threshold) ==
    IF TooManyKeys(pks)
    THEN [ok |-> FALSE, err |-> "TooGoddamnBig",
          required |-> 0, actual |-> 0, calls |-> {}]
    ELSE LET end == verify_sig_loop(self, pks, threshold)
         IN  IF end.valid_sigs >= threshold
             THEN [ok |-> TRUE, err |-> "",
                   required |-> 0, actual |-> 0, calls |-> end.calls]
             ELSE [ok |-> FALSE, err |-> "ThresholdNotMet",
                   required |-> end.valid_sigs, actual |-> threshold,
                   calls |-> end.calls]

\* SignedBondTx::verify_sig(&self, pks, threshold): Ok(()) or the error, with
\* the fields of ThresholdNotMet and the signature verifications made
verify_sig(self, pks, threshold) ==
    IF TooManyKeys(pks)
    THEN [ok |-> FALSE, err |-> "TooGoddamnBig",
          required |-> 0, actual |-> 0, calls |-> {}]
    ELSE LET end == verify_sig_loop(self, pks, threshold)
         IN  IF end.valid_sigs >= threshold
             THEN [ok |-> TRUE, err |-> "",
                   required |-> 0, actual |-> 0, calls |-> end.calls]
             ELSE [ok |-> FALSE, err |-> "ThresholdNotMet",
                   required |-> threshold, actual |-> end.valid_sigs,
                   calls |-> end.calls]

----------------------------------------------------------------------------
(* Pass 3: validate_bond *)

RECURSIVE Pow10(_)
Pow10(n) == IF n = 0 THEN 1 ELSE 10 * Pow10(n - 1)

\* DenominatedAmount::increase_precision(denom): None when the amount has
\* more decimal places than denom or the scaled amount overflows
increase_precision(amount, denom) ==
    IF amount.denom > denom THEN None
    ELSE IF amount.amount * Pow10(denom - amount.denom) > UintMax THEN None
    ELSE Some([amount |-> amount.amount * Pow10(denom - amount.denom),
               denom |-> denom])

\* variant with a fault: the amount is relabelled, not rescaled
denominate_unscaled(data) ==
    LET amount == increase_precision(data.amount, NATIVE_MAX_DECIMAL_PLACES)
    IN  IF IsSome(amount)
        THEN Some([source |-> data.source, validator |-> data.validator,
                   amount |-> [amount |-> data.amount.amount,
                               denom |-> NATIVE_MAX_DECIMAL_PLACES]])
        ELSE None

\* BondTx<Unvalidated>::denominate
denominate(data) ==
    LET amount == increase_precision(data.amount, NATIVE_MAX_DECIMAL_PLACES)
    IN  IF IsSome(amount)
        THEN Some([source |-> data.source, validator |-> data.validator,
                   amount |-> Unwrap(amount)])
        ELSE None

\* DenominatedAmount: a < b, of amounts of one denomination
AmountLt(a, b) == a.amount < b.amount

\* variant with a fault: the threshold of the account is not used; one
\* signature is enough, as for a public-key source
BondSigners_one(source, accounts) ==
    IF source.kind = "EstablishedAddress"
    THEN IF source.val \in DOMAIN accounts
         THEN Some(<<accounts[source.val][1], 1>>) ELSE None
    ELSE Some(<<(<<source.val>>), 1>>)

\* the (keys, threshold) the signatures of a bond are verified against
BondSigners(source, accounts) ==
    IF source.kind = "EstablishedAddress"
    THEN IF source.val \in DOMAIN accounts
         THEN Some(accounts[source.val]) ELSE None
    ELSE Some(<<(<<source.val>>), 1>>)

\* the signature check of validate_bond: the diagnostics it prints
BondSignatureErrors(tx, accounts) ==
    LET maybe_source == BondSigners(tx.data.source, accounts)
    IN  IF IsSome(maybe_source)
        THEN IF ~verify_sig(tx, Unwrap(maybe_source)[1],
                            Unwrap(maybe_source)[2]).ok
             THEN {"invalid_signature"} ELSE {}
        ELSE {"source_not_found"}

\* variant with a fault: the balance is not compared with the amount
BondBalanceErrors_nocompare(bond, balances_, native_token) ==
    IF native_token \notin DOMAIN balances_ THEN {"token_not_found"}
    ELSE IF bond.source \notin DOMAIN balances_[native_token]
    THEN {"no_balance"}
    ELSE {}

\* the balance check of validate_bond: the diagnostics it prints
BondBalanceErrors(bond, balances_, native_token) ==
    IF native_token \notin DOMAIN balances_ THEN {"token_not_found"}
    ELSE IF bond.source \notin DOMAIN balances_[native_token]
    THEN {"no_balance"}
    ELSE IF AmountLt(balances_[native_token][bond.source], bond.amount)
    THEN {"insufficient_balance"}
    ELSE {}

\* variant with a fault: a balance equal to the amount is left as a zero
\* entry
BondDebit_zeroentry(bond, balances_, native_token) ==
    IF BondBalanceErrors(bond, balances_, native_token) # {}
    THEN balances_
    ELSE LET amounts == balances_[native_token]
             balance == amounts[bond.source]
         IN  [balances_ EXCEPT ![native_token] =
                [amounts EXCEPT ![bond.source] =
                    [balance EXCEPT !.amount =
                        balance.amount - bond.amount.amount]]]

\* variant with a fault: the entry of the source is removed for every token
BondDebit_alltokens(bond, balances_, native_token) ==
    IF BondBalanceErrors(bond, balances_, native_token) # {} THEN balances_
    ELSE [t \in DOMAIN balances_ |-> MapRemove(balances_[t], bond.source)]

\* variant with a fault: an insufficient balance is emptied
BondDebit_emptied(bond, balances_, native_token) ==
    IF BondBalanceErrors(bond, balances_, native_token)
            = {"insufficient_balance"}
    THEN [balances_ EXCEPT ![native_token] =
            MapRemove(balances_[native_token], bond.source)]
    ELSE IF BondBalanceErrors(bond, balances_, native_token) # {}
    THEN balances_
    ELSE LET amounts == balances_[native_token]
             balance == amounts[bond.source]
         IN  IF bond.amount = balance
             THEN [balances_ EXCEPT ![native_token] =
                        MapRemove(amounts, bond.source)]
             ELSE [balances_ EXCEPT ![native_token] =
                        [amounts EXCEPT ![bond.source] =
                            [balance EXCEPT !.amount =
                                balance.amount - bond.amount.amount]]]

\* the balances after the balance check of validate_bond
BondDebit(bond, balances_, native_token) ==
    IF BondBalanceErrors(bond, balances_, native_token) # {} THEN balances_
    ELSE LET amounts == balances_[native_token]
             balance == amounts[bond.source]
         IN  IF bond.amount = balance
             THEN [balances_ EXCEPT ![native_token] =
                        MapRemove(amounts, bond.source)]
             ELSE [balances_ EXCEPT ![native_token] =
                        [amounts EXCEPT ![bond.source] =
                            [balance EXCEPT !.amount =
                                balance.amount - bond.amount.amount]]]

\* variant with a fault: the target validator is not looked up
validate_bond_anytarget(tx, balances_, accounts, validators, params) ==
    LET sig_errors == BondSignatureErrors(tx, accounts)
        validated_bond == denominate(tx.data)
    IN  IF ~IsSome(validated_bond)
        THEN [result |-> None,
              errors |-> sig_errors \cup {"bad_amount"},
              balances |-> balances_]
        ELSE LET bond == Unwrap(validated_bond)
                 errors == sig_errors
                    \cup BondBalanceErrors(bond, balances_, params.native_token)
             IN  [result |-> IF errors = {} THEN Some(bond) ELSE None,
                  errors |-> errors,
                  balances |-> BondDebit(bond, balances_, params.native_token)]

\* variant with a fault: the outcome of the signature check is overwritten
\* by that of the later checks
validate_bond_sigforgotten(tx, balances_, accounts, validators, params) ==
    LET sig_errors == BondSignatureErrors(tx, accounts)
        validated_bond == denominate(tx.data)
    IN  IF ~IsSome(validated_bond)
        THEN [result |-> None,
              errors |-> sig_errors \cup {"bad_amount"},
              balances |-> balances_]
        ELSE LET bond == Unwrap(validated_bond)
                 later == (IF bond.validator \notin validators
                           THEN {"validator_not_found"} ELSE {})
                    \cup BondBalanceErrors(bond, balances_, params.native_token)
             IN  [result |-> IF later = {} THEN Some(bond) ELSE None,
                  errors |-> sig_errors \cup later,
                  balances |-> BondDebit(bond, balances_, params.native_token)]

\* variant with a fault: a bond whose amount does not convert empties the
\* ledger entry of its source
validate_bond_badremoves(tx, balances_, accounts, validators, params) ==
    LET sig_errors == BondSignatureErrors(tx, accounts)
        validated_bond == denominate(tx.data)
    IN  IF ~IsSome(validated_bond)
        THEN [result |-> None,
              errors |-> sig_errors \cup {"bad_amount"},
              balances |->
                IF params.native_token \in DOMAIN balances_
                THEN [balances_ EXCEPT ![params.native_token] =
                        MapRemove(@, tx.data.source)]
                ELSE balances_]
        ELSE LET bond == Unwrap(validated_bond)
                 errors == sig_errors
                    \cup (IF bond.validator \notin validators
                          THEN {"validator_not_found"} ELSE {})
                    \cup BondBalanceErrors(bond, balances_, params.native_token)
             IN  [result |-> IF errors = {} THEN Some(bond) ELSE None,
                  errors |-> errors,
                  balances |-> BondDebit(bond, balances_, params.native_token)]

\* validate_bond: the returned Option<BondTx<Validated>>, the diagnostics
\* printed and the balances after the call
validate_bond(tx, balances_, accounts, validators, params) ==
    LET sig_errors == BondSignatureErrors(tx, accounts)
        validated_bond == denominate(tx.data)
    IN  IF ~IsSome(validated_bond)
        THEN [result |-> None,
              errors |-> sig_errors \cup {"bad_amount"},
              balances |-> balances_]
        ELSE LET bond == Unwrap(validated_bond)
                 errors == sig_errors
                    \cup (IF bond.validator \notin validators
                          THEN {"validator_not_found"} ELSE {})
                    \cup BondBalanceErrors(bond, balances_, params.native_token)
             IN  [result |-> IF errors = {} THEN Some(bond) ELSE None,
                  errors |-> errors,
                  balances |-> BondDebit(bond, balances_, params.native_token)]

----------------------------------------------------------------------------
(* validate: one step per transaction of each pass *)

\* the list of an optional section, empty when the section is absent
Txs(section) == IF IsSome(section) THEN Unwrap(section) ELSE << >>

\* the working copy of the balances made before the bonds are validated
WorkingBalances(balances_) ==
    IF IsSome(balances_) THEN Unwrap(balances_) ELSE EmptyMap

\* the state at the entry of validate
ValidateEntry ==
    /\ pc = "established_account"
    /\ i = 1
    /\ is_valid = TRUE
    /\ all_used_addresses = {}
    /\ established_accounts = EmptyMap
    /\ validator_accounts = {}
    /\ token_balances = EmptyMap
    /\ validated_vec = << >>
    /\ validated_bonds = None
    /\ result = None
    /\ ea_returned = << >>
    /\ va_returned = << >>
    /\ bond_returned = << >>

\* for tx in established_account: validate_established_account
EstablishedAccountStep ==
    /\ pc = "established_account"
    /\ i <= Len(Txs(transactions.established_account))
    /\ LET r == validate_established_account(
                    Txs(transactions.established_account)[i], vps,
                    all_used_addresses, established_accounts)
       IN  /\ is_valid' = (is_valid /\ r.is_valid)
           /\ all_used_addresses' = r.all_used_addresses
           /\ established_accounts' = r.established_accounts
           /\ ea_returned' = Append(ea_returned,
                    [is_valid |-> r.is_valid, errors |-> r.errors,
                     address |-> r.address])
    /\ i' = i + 1
    /\ UNCHANGED <<transactions, vps, balances, parameters, pc,
                   validator_accounts, token_balances, validated_vec,
                   validated_bonds, result, va_returned, bond_returned>>
    /\ UNCHANGED sigVars
    /\ UNCHANGED signVars
    /\ UNCHANGED <<txVars, sleepVars, stVars, psVars>>

\* the established accounts are exhausted (or absent)
EstablishedAccountEnd ==
    /\ pc = "established_account"
    /\ i > Len(Txs(transactions.established_account))
    /\ pc' = "validator_account"
    /\ i' = 1
    /\ UNCHANGED <<transactions, vps, balances, parameters, is_valid,
                   all_used_addresses, established_accounts,
                   validator_accounts, token_balances, validated_vec,
                   validated_bonds, result, ea_returned, va_returned,
                   bond_returned>>
    /\ UNCHANGED sigVars
    /\ UNCHANGED signVars
    /\ UNCHANGED <<txVars, sleepVars, stVars, psVars>>

\* for tx in validator_account: validate_validator_account
ValidatorAccountStep ==
    /\ pc = "validator_account"
    /\ i <= Len(Txs(transactions.validator_account))
    /\ LET r == validate_validator_account(
                    Txs(transactions.validator_account)[i], vps,
                    all_used_addresses, validator_accounts)
       IN  /\ is_valid' = (is_valid /\ r.is_valid)
           /\ validator_accounts' = r.validator_accounts
           /\ va_returned' = Append(va_returned,
                    [is_valid |-> r.is_valid, errors |-> r.errors,
                     address |-> r.address])
    /\ i' = i + 1
    /\ UNCHANGED <<transactions, vps, balances, parameters, pc,
                   all_used_addresses, established_accounts, token_balances,
                   validated_vec, validated_bonds, result, ea_returned,
                   bond_returned>>
    /\ UNCHANGED sigVars
    /\ UNCHANGED signVars
    /\ UNCHANGED <<txVars, sleepVars, stVars, psVars>>

\* the validator accounts are exhausted (or absent); the working copy of the
\* balances is made
ValidatorAccountEnd ==
    /\ pc = "validator_account"
    /\ i > Len(Txs(transactions.validator_account))
    /\ token_balances' = WorkingBalances(balances)
    /\ pc' = "bond"
    /\ i' = 1
    /\ UNCHANGED <<transactions, vps, balances, parameters, is_valid,
                   all_used_addresses, established_accounts,
                   validator_accounts, validated_vec, validated_bonds,
                   result, ea_returned, va_returned, bond_returned>>
    /\ UNCHANGED sigVars
    /\ UNCHANGED signVars
    /\ UNCHANGED <<txVars, sleepVars, stVars, psVars>>

\* txs.into_iter().filter_map(validate_bond), one bond
BondStep ==
    /\ pc = "bond"
    /\ IsSome(parameters)
    /\ i <= Len(Txs(transactions.bond))
    /\ LET r == validate_bond(Txs(transactions.bond)[i], token_balances,
                              established_accounts, validator_accounts,
                              Unwrap(parameters))
       IN  /\ token_balances' = r.balances
           /\ validated_vec' = IF IsSome(r.result)
                               THEN Append(validated_vec, Unwrap(r.result))
                               ELSE validated_vec
           /\ bond_returned' = Append(bond_returned,
                    [result |-> r.result, errors |-> r.errors,
                     balances |-> r.balances])
    /\ i' = i + 1
    /\ UNCHANGED <<transactions, vps, balances, parameters, pc, is_valid,
                   all_used_addresses, established_accounts,
                   validator_accounts, validated_bonds, result, ea_returned,
                   va_returned>>
    /\ UNCHANGED sigVars
    /\ UNCHANGED signVars
    /\ UNCHANGED <<txVars, sleepVars, stVars, psVars>>

\* variant with a fault: the batch is not marked invalid
BondNoParameters_keepvalid ==
    /\ pc = "bond"
    /\ Txs(transactions.bond) # << >>
    /\ ~IsSome(parameters)
    /\ validated_bonds' = None
    /\ pc' = "gate"
    /\ UNCHANGED <<transactions, vps, balances, parameters, i, is_valid,
                   all_used_addresses, established_accounts,
                   validator_accounts, token_balances, validated_vec, result,
                   ea_returned, va_returned, bond_returned>>
    /\ UNCHANGED sigVars
    /\ UNCHANGED signVars
    /\ UNCHANGED <<txVars, sleepVars, stVars, psVars>>

\* a non-empty bond list without parameters
BondNoParameters ==
    /\ pc = "bond"
    /\ Txs(transactions.bond) # << >>
    /\ ~IsSome(parameters)
    /\ is_valid' = FALSE
    /\ validated_bonds' = None
    /\ pc' = "gate"
    /\ UNCHANGED <<transactions, vps, balances, parameters, i,
                   all_used_addresses, established_accounts,
                   validator_accounts, token_balances, validated_vec, result,
                   ea_returned, va_returned, bond_returned>>
    /\ UNCHANGED sigVars
    /\ UNCHANGED signVars
    /\ UNCHANGED <<txVars, sleepVars, stVars, psVars>>

\* variant with a fault: the bonds that failed are dropped and the batch is
\* not marked invalid
BondEnd_dropfailed ==
    /\ pc = "bond"
    /\ i > Len(Txs(transactions.bond))
    /\ IsSome(parameters) \/ Txs(transactions.bond) = << >>
    /\ validated_bonds' = IF Txs(transactions.bond) = << >> THEN None
                          ELSE Some(validated_vec)
    /\ pc' = "gate"
    /\ UNCHANGED <<transactions, vps, balances, parameters, i, is_valid,
                   all_used_addresses, established_accounts,
                   validator_accounts, token_balances, validated_vec, result,
                   ea_returned, va_returned, bond_returned>>
    /\ UNCHANGED sigVars
    /\ UNCHANGED signVars
    /\ UNCHANGED <<txVars, sleepVars, stVars, psVars>>

\* the bonds are exhausted (or absent, or the list is empty): the number of
\* validated bonds is compared with the number of bonds
BondEnd ==
    /\ pc = "bond"
    /\ i > Len(Txs(transactions.bond))
    /\ IsSome(parameters) \/ Txs(transactions.bond) = << >>
    /\ IF Txs(transactions.bond) = << >>
       THEN /\ validated_bonds' = None
            /\ UNCHANGED is_valid
       ELSE IF Len(validated_vec) # Len(Txs(transactions.bond))
       THEN /\ is_valid' = FALSE
            /\ validated_bonds' = None
       ELSE /\ validated_bonds' = Some(validated_vec)
            /\ UNCHANGED is_valid
    /\ pc' = "gate"
    /\ UNCHANGED <<transactions, vps, balances, parameters, i,
                   all_used_addresses, established_accounts,
                   validator_accounts, token_balances, validated_vec, result,
                   ea_returned, va_returned, bond_returned>>
    /\ UNCHANGED sigVars
    /\ UNCHANGED signVars
    /\ UNCHANGED <<txVars, sleepVars, stVars, psVars>>

\* is_valid.then_some(Transactions { .. })
Gate ==
    /\ pc = "gate"
    /\ result' = IF is_valid
                 THEN Some([established_account |->
                                transactions.established_account,
                            validator_account |->
                                transactions.validator_account,
                            bond |-> validated_bonds])
                 ELSE None
    /\ pc' = "done"
    /\ UNCHANGED <<transactions, vps, balances, parameters, i, is_valid,
                   all_used_addresses, established_accounts,
                   validator_accounts, token_balances, validated_vec,
                   validated_bonds, ea_returned, va_returned, bond_returned>>
    /\ UNCHANGED sigVars
    /\ UNCHANGED signVars
    /\ UNCHANGED <<txVars, sleepVars, stVars, psVars>>

----------------------------------------------------------------------------
(* Transactions<Validated>: has_at_least_one_validator *)

\* variant with a fault: a present but empty validator list counts
has_at_least_one_validator_present(self) == IsSome(self.validator_account)

\* self.validator_account.as_ref().map(|txs| !txs.is_empty())
\*     .unwrap_or_default()
has_at_least_one_validator(self) ==
    IF IsSome(self.validator_account)
    THEN Unwrap(self.validator_account) # << >>
    ELSE FALSE

\* the Transactions<Validated> at hand: what validate returned, or tx_self
\* when validate is not running
ValidatedAtHand == IF pc = "done" THEN result ELSE tx_self

\* txs.has_at_least_one_validator() on the validated transactions
HasAtLeastOneValidator ==
    /\ IsSome(ValidatedAtHand)
    /\ tx_has_validator = None
    /\ tx_has_validator' =
        Some(has_at_least_one_validator(Unwrap(ValidatedAtHand)))
    /\ UNCHANGED <<tx_self, tx_other, tx_third, tx_votes_per_token,
                   tx_merges, tx_positive_power, ia_args, ia_result>>
    /\ UNCHANGED <<valVars, sigVars, signVars, sleepVars, stVars, psVars>>

----------------------------------------------------------------------------
(* Signing of validator-account txs and bonds *)

\* variant with a fault: the protocol key is authorized with the consensus
\* key of the wallet
sign_validator_account_tx_onekey(unsigned_tx, validator_wallet) ==
    [address |-> unsigned_tx.address,
     vp |-> unsigned_tx.vp,
     commission_rate |-> unsigned_tx.commission_rate,
     max_commission_rate_change |-> unsigned_tx.max_commission_rate_change,
     net_address |-> unsigned_tx.net_address,
     metadata |-> unsigned_tx.metadata,
     consensus_key |->
        [pk |-> unsigned_tx.consensus_key,
         authorization |->
            sign_tx(unsigned_tx, validator_wallet.consensus_key)],
     protocol_key |->
        [pk |-> unsigned_tx.protocol_key,
         authorization |->
            sign_tx(unsigned_tx, validator_wallet.consensus_key)],
     tendermint_node_key |->
        [pk |-> unsigned_tx.tendermint_node_key,
         authorization |->
            sign_tx(unsigned_tx, validator_wallet.tendermint_node_key)],
     eth_hot_key |->
        [pk |-> unsigned_tx.eth_hot_key,
         authorization |->
            sign_tx(unsigned_tx, validator_wallet.eth_hot_key)],
     eth_cold_key |->
        [pk |-> unsigned_tx.eth_cold_key,
         authorization |->
            sign_tx(unsigned_tx, validator_wallet.eth_cold_key)]]

\* sign_validator_account_tx: every role key is paired with the signature of
\* the unsigned tx by the wallet's key of that role
sign_validator_account_tx(unsigned_tx, validator_wallet) ==
    [address |-> unsigned_tx.address,
     vp |-> unsigned_tx.vp,
     commission_rate |-> unsigned_tx.commission_rate,
     max_commission_rate_change |-> unsigned_tx.max_commission_rate_change,
     net_address |-> unsigned_tx.net_address,
     metadata |-> unsigned_tx.metadata,
     consensus_key |->
        [pk |-> unsigned_tx.consensus_key,
         authorization |->
            sign_tx(unsigned_tx, validator_wallet.consensus_key)],
     protocol_key |->
        [pk |-> unsigned_tx.protocol_key,
         authorization |->
            sign_tx(unsigned_tx, validator_wallet.protocol_key)],
     tendermint_node_key |->
        [pk |-> unsigned_tx.tendermint_node_key,
         authorization |->
            sign_tx(unsigned_tx, validator_wallet.tendermint_node_key)],
     eth_hot_key |->
        [pk |-> unsigned_tx.eth_hot_key,
         authorization |->
            sign_tx(unsigned_tx, validator_wallet.eth_hot_key)],
     eth_cold_key |->
        [pk |-> unsigned_tx.eth_cold_key,
         authorization |->
            sign_tx(unsigned_tx, validator_wallet.eth_cold_key)]]

\* SignedBondTx::from(bond) followed by SignedBondTx::sign(keys): one
\* signature of the bond data per key, in key order
SignedBond(data, keys) ==
    [data |-> data,
     signatures |->
        [n \in 1..Len(keys) |->
            standalone_signature(keys[n], data_to_sign(data))]]

\* SignedBondTx::from(bond): no signatures yet
FromBondTx(bond) == [data |-> bond, signatures |-> << >>]

\* variant with a fault: the signatures of the call replace the earlier ones
sign_replacing(self, key) ==
    [data |-> self.data,
     signatures |->
        [n \in 1..Len(key) |->
            standalone_signature(key[n], data_to_sign(self.data))]]

\* SignedBondTx::sign(&mut self, key): self after the call
sign(self, key) ==
    [data |-> self.data,
     signatures |-> self.signatures \o
        [n \in 1..Len(key) |->
            standalone_signature(key[n], data_to_sign(self.data))]]

\* the keys of the list that wallet.find_key_by_pk finds, in list order
FoundInWallet(pks, wallet) == SelectSeq(pks, LAMBDA pk : pk \in wallet)

\* look_up_sk_from: whether it panics, and the secret keys it returns
look_up_sk_from(source, wallet, accounts) ==
    IF source.kind = "PublicKey" /\ source.val \in wallet
    THEN [panic |-> FALSE, keys |-> <<source.val>>]
    ELSE IF ~IsSome(accounts)
    THEN [panic |-> TRUE, keys |-> << >>]
    ELSE IF source.kind = "PublicKey"
    THEN IF Unwrap(accounts) = << >>
         THEN [panic |-> TRUE, keys |-> << >>]
         ELSE [panic |-> FALSE,
               keys |-> FoundInWallet(<<source.val>>, wallet)]
    ELSE LET matching == {n \in DOMAIN Unwrap(accounts) :
                            derive_established_address(Unwrap(accounts)[n])
                                = source.val}
         IN  IF matching = {}
             THEN [panic |-> TRUE, keys |-> << >>]
             ELSE LET first == CHOOSE n \in matching :
                                    \A m \in matching : n <= m
                  IN  [panic |-> FALSE,
                       keys |-> FoundInWallet(
                                    Unwrap(accounts)[first].public_keys,
                                    wallet)]

----------------------------------------------------------------------------
(* The inputs of validate *)

VpNames == {"vp_user", "vp_unknown"}
\* the validity predicates file, when there is one
ValidityPredicates == {"vp_user"}
\* Parameters: the native token
NativeParameters == [native_token |-> "nam"]

\* a 1-of-1 account, a 2-of-2 account and an account with zero threshold
Account1 == [vp |-> "vp_user", threshold |-> 1, public_keys |-> <<"k1">>]
Account2 == [vp |-> "vp_user", threshold |-> 2, public_keys |-> <<"k1", "k2">>]
AccountZero == [vp |-> "vp_user", threshold |-> 0, public_keys |-> <<"k2">>]
\* a 2-of-2 account that lists one key twice
AccountTwice == [vp |-> "vp_user", threshold |-> 2, public_keys |-> <<"k1", "k1">>]
EstablishedChoices == {Account1, Account2, AccountZero}

\* key lists of U8_MAX and U8_MAX + 1 keys
LongKeys(n) == [k \in 1..n |-> "k1"]
\* the key lists, thresholds and established-account txs of the wide family
KeyLists == SeqsUpTo(Keys, MaxKeys) \cup {LongKeys(U8_MAX), LongKeys(U8_MAX + 1)}
Thresholds == 0..MaxThreshold \cup {U8_MAX}
EstablishedWide ==
    [vp : VpNames, threshold : Thresholds, public_keys : KeyLists]

\* init_validator: the unsigned validator tx of an established address
UnsignedValidator(address, vp) ==
    [address |-> address,
     vp |-> vp,
     commission_rate |-> "0.05",
     max_commission_rate_change |-> "0.01",
     net_address |-> "127.0.0.1:26656",
     metadata |-> "validator@example.org",
     consensus_key |-> "consensus_pk",
     protocol_key |-> "protocol_pk",
     tendermint_node_key |-> "tendermint_node_pk",
     eth_hot_key |-> "eth_hot_pk",
     eth_cold_key |-> "eth_cold_pk"]

\* the validator wallet holding the key of every role
ValidatorWallet ==
    [consensus_key |-> "consensus_pk",
     protocol_key |-> "protocol_pk",
     tendermint_node_key |-> "tendermint_node_pk",
     eth_hot_key |-> "eth_hot_pk",
     eth_cold_key |-> "eth_cold_pk"]
\* the wallets that hold, for each role, its key or another key
Wallets ==
    [consensus_key : {"consensus_pk", "other_pk"},
     protocol_key : {"protocol_pk", "other_pk"},
     tendermint_node_key : {"tendermint_node_pk", "other_pk"},
     eth_hot_key : {"eth_hot_pk", "other_pk"},
     eth_cold_key : {"eth_cold_pk", "other_pk"}]

\* the signed validator txs of Account1 and of Account2
ValidatorChoices ==
    {sign_validator_account_tx(
        UnsignedValidator(derive_address(a), "vp_user"), ValidatorWallet) :
        a \in {Account1, Account2}}
\* validator txs of either address and vp signed with every wallet, and the
\* same with the address changed to that of Account1 after signing
ValidatorSigned ==
    {sign_validator_account_tx(UnsignedValidator(derive_address(a), vp), w) :
        a \in {Account1, Account2}, vp \in VpNames, w \in Wallets}
ValidatorWide ==
    ValidatorSigned
    \cup {[tx EXCEPT !.address = derive_address(Account1)] :
            tx \in ValidatorSigned}

\* the balance snapshot: per token, per address
Snapshot ==
    [t \in {"nam"} |->
        [a \in {EstablishedAddress(derive_address(Account1)), PublicKey("k2")}
            |-> [amount |-> 3000000, denom |-> NATIVE_MAX_DECIMAL_PLACES]]]

\* a bond of an established account signed by its key, a bond of an implicit
\* account, and a bond whose amount has too many decimal places
BondChoices ==
    {SignedBond([source |-> EstablishedAddress(derive_address(Account1)),
                 validator |-> derive_address(Account1),
                 amount |-> [amount |-> 2, denom |-> 0]], <<"k1">>),
     SignedBond([source |-> PublicKey("k2"),
                 validator |-> derive_address(Account1),
                 amount |-> [amount |-> 3, denom |-> 0]], <<"k2">>),
     SignedBond([source |-> EstablishedAddress(derive_address(Account2)),
                 validator |-> derive_address(Account2),
                 amount |-> [amount |-> 1, denom |-> 7]], <<"k1">>)}

\* an optional list: absent, or a list of at most n elements of S
OptionalLists(S, n) == {None} \cup {Some(l) : l \in SeqsUpTo(S, n)}

\* the bond data, signatures, key lists and thresholds given to verify_sig
BondData ==
    [source |-> EstablishedAddress(derive_address(Account2)),
     validator |-> derive_address(Account1),
     amount |-> [amount |-> 2, denom |-> 0]]
OtherBondData == [BondData EXCEPT !.amount = [amount |-> 20, denom |-> 0]]
SignatureChoices ==
    {standalone_signature(k, data_to_sign(BondData)) : k \in Keys}
    \cup {standalone_signature("k1", data_to_sign(OtherBondData))}
SignatureLists == SeqsUpTo(SignatureChoices, MaxSigs)

\* the verify_sig call is idle while validate runs
SigIdle ==
    /\ vs_data = << >>
    /\ vs_signatures = << >>
    /\ vs_pks = << >>
    /\ vs_threshold = 0
    /\ vs_result = None

\* no Transactions value is at hand and init_established_account is not
\* called
TxIdle ==
    /\ tx_self = None
    /\ tx_other = None
    /\ tx_third = None
    /\ tx_votes_per_token = None
    /\ tx_merges = << >>
    /\ tx_has_validator = None
    /\ tx_positive_power = None
    /\ ia_args = None
    /\ ia_result = None

\* no call of sign_txs
SignTxsIdle ==
    /\ st_txs = None
    /\ st_wallet = {}
    /\ st_validator_wallet = None
    /\ st_result = None

\* no parameters storage at hand
StorageIdle ==
    /\ ps_storage = None
    /\ ps_parameters = None
    /\ ps_calls = << >>
    /\ ps_read = None

\* no SleepStrategy is running
SleepIdle ==
    /\ sl_strategy = None
    /\ sl_deadline = None
    /\ sl_breaks_at = 0
    /\ sl_now = 0
    /\ sl_backoff = 0
    /\ sl_pc = "idle"
    /\ sl_wake = 0
    /\ sl_attempts = 0
    /\ sl_result = None
    /\ sl_completed_at = None
    /\ sl_sleeps = << >>

\* nothing is being signed
SignIdle ==
    /\ sg_pc = "idle"
    /\ sg_wallet = {}
    /\ sg_established = None
    /\ sg_unsigned = None
    /\ sg_signed = None
    /\ sg_calls = << >>
    /\ sg_tampered = None
    /\ sg_verified = None
    /\ sv_wallet = None
    /\ sv_unsigned = None
    /\ sv_signed = None
    /\ sv_tampered = ""
    /\ sv_errors = None

\* batches of the three sections
InitBatch ==
    /\ transactions \in
        [established_account : OptionalLists(EstablishedChoices, MaxEstablished),
         validator_account : OptionalLists(ValidatorChoices, MaxValidators),
         bond : OptionalLists(BondChoices, MaxBonds)]
    /\ vps \in {None, Some(ValidityPredicates)}
    /\ balances \in {None, Some(Snapshot)}
    /\ parameters \in {None, Some(NativeParameters)}

\* batches of established accounts of every shape, alone or after Account1
\* or after themselves
InitEstablishedWide ==
    /\ \E tx \in EstablishedWide :
        transactions \in
            [established_account :
                {Some(<<tx>>), Some(<<tx, tx>>), Some(<<Account1, tx>>)},
             validator_account : {None},
             bond : {None}]
    /\ vps \in {None, Some(ValidityPredicates)}
    /\ balances = None
    /\ parameters = None

\* batches of one established account and validators signed with every wallet
InitValidatorWide ==
    /\ \E tx \in ValidatorWide :
        transactions \in
            [established_account : {Some(<<Account1>>)},
             validator_account : {Some(<<tx>>)},
             bond : {None}]
    /\ vps = Some(ValidityPredicates)
    /\ balances = None
    /\ parameters = None

Init ==
    /\ InitBatch \/ InitEstablishedWide \/ InitValidatorWide
    /\ ValidateEntry
    /\ SigIdle
    /\ SignIdle
    /\ TxIdle
    /\ SleepIdle
    /\ SignTxsIdle
    /\ StorageIdle

Next ==
    \/ EstablishedAccountStep
    \/ EstablishedAccountEnd
    \/ ValidatorAccountStep
    \/ ValidatorAccountEnd
    \/ BondStep
    \/ BondNoParameters
    \/ BondEnd
    \/ Gate
    \/ HasAtLeastOneValidator

Spec == Init /\ [][Next]_vars

----------------------------------------------------------------------------
(* validate on batches with bonds of every shape *)

\* a balance snapshot of two tokens with a balance for both accounts and one
\* implicit account, and one without the native token
SnapshotWide ==
    [t \in {"nam", "btc"} |->
        [a \in {EstablishedAddress(derive_address(Account1)),
                EstablishedAddress(derive_address(Account2)),
                PublicKey("k2")}
            |-> [amount |-> IF a = EstablishedAddress(derive_address(Account2))
                              THEN 2000000 ELSE 3000000,
                 denom |-> IF t = "nam" THEN NATIVE_MAX_DECIMAL_PLACES
                           ELSE 8]]]
SnapshotOtherToken ==
    [t \in {"btc"} |->
        [a \in {EstablishedAddress(derive_address(Account1))}
            |-> [amount |-> 3000000, denom |-> 8]]]

\* the amounts of the bonds: 0, 1, 2, 4, 1.5, one with 7 decimal places and
\* one that overflows when denominated
BondAmounts ==
    {[amount |-> 0, denom |-> 0],
     [amount |-> 1, denom |-> 0], [amount |-> 2, denom |-> 0],
     [amount |-> 4, denom |-> 0], [amount |-> 15, denom |-> 1],
     [amount |-> 1, denom |-> 7], [amount |-> 200, denom |-> 0]}

\* bonds of every source, target and amount, signed with every key list
BondWide ==
    {SignedBond([source |-> src, validator |-> derive_address(target),
                 amount |-> amount], signers) :
        src \in {EstablishedAddress(derive_address(Account1)),
                 EstablishedAddress(derive_address(Account2)),
                 EstablishedAddress(derive_address(AccountZero)),
                 PublicKey("k1"), PublicKey("k2")},
        target \in {Account1, Account2},
        amount \in BondAmounts,
        signers \in SeqsUpTo(Keys, MaxSigs)}

\* the list l with x put after its first n elements
InsertAt(l, n, x) == SubSeq(l, 1, n) \o <<x>> \o SubSeq(l, n + 1, Len(l))

\* the bond lists of at most MaxBonds bonds that hold one bond of BondWide
\* among bonds of BondChoices
BondListsWide ==
    {InsertAt(l[1], l[2], b) :
        l \in {<<c, n>> \in SeqsUpTo(BondChoices, MaxBonds - 1) \X (0..MaxBonds) :
                    n <= Len(c)},
        b \in BondWide}

InitBondsWide ==
    /\ transactions \in
        [established_account : {Some(<<Account1, Account2>>)},
         validator_account :
            {Some(<<sign_validator_account_tx(
                UnsignedValidator(derive_address(Account1), "vp_user"),
                ValidatorWallet)>>)},
         bond : {Some(l) : l \in BondListsWide}]
    /\ vps = Some(ValidityPredicates)
    /\ balances \in {None, Some(SnapshotWide), Some(SnapshotOtherToken)}
    /\ parameters \in {None, Some(NativeParameters)}

InitBonds ==
    /\ InitBondsWide
    /\ ValidateEntry
    /\ SigIdle
    /\ SignIdle
    /\ TxIdle
    /\ SleepIdle
    /\ SignTxsIdle
    /\ StorageIdle

SpecBonds == InitBonds /\ [][Next]_vars

----------------------------------------------------------------------------
(* One call of SignedBondTx::verify_sig on any bond, key list and threshold *)

\* validate is idle while verify_sig is called
ValidateIdle ==
    /\ transactions = [established_account |-> None,
                       validator_account |-> None, bond |-> None]
    /\ vps = None
    /\ balances = None
    /\ parameters = None
    /\ pc = "idle"
    /\ i = 1
    /\ is_valid = TRUE
    /\ all_used_addresses = {}
    /\ established_accounts = EmptyMap
    /\ validator_accounts = {}
    /\ token_balances = EmptyMap
    /\ validated_vec = << >>
    /\ validated_bonds = None
    /\ result = None
    /\ ea_returned = << >>
    /\ va_returned = << >>
    /\ bond_returned = << >>

InitVerifySig ==
    /\ vs_data = BondData
    /\ vs_signatures \in SignatureLists
    /\ vs_pks \in KeyLists
    /\ vs_threshold \in Thresholds
    /\ vs_result = None
    /\ ValidateIdle
    /\ SignIdle
    /\ TxIdle
    /\ SleepIdle
    /\ SignTxsIdle
    /\ StorageIdle

\* self.verify_sig(pks, threshold)
VerifySig ==
    /\ pc = "idle"
    /\ vs_result = None
    /\ vs_result' = Some(verify_sig(
                        [data |-> vs_data, signatures |-> vs_signatures],
                        vs_pks, vs_threshold))
    /\ UNCHANGED <<vs_data, vs_signatures, vs_pks, vs_threshold>>
    /\ UNCHANGED valVars
    /\ UNCHANGED signVars
    /\ UNCHANGED <<txVars, sleepVars, stVars, psVars>>

NextVerifySig == VerifySig

SpecVerifySig == InitVerifySig /\ [][NextVerifySig]_vars

----------------------------------------------------------------------------
(* Signing: sign_delegation_bond_tx, further calls of SignedBondTx::sign and *)
(* verify_sig on the result; sign_validator_account_tx and                   *)
(* validate_validator_account on the result. Between signing and checking,   *)
(* one signed field may be given another value.                              *)

\* the sources, validators and amounts of the bonds that are signed
SignSources ==
    {EstablishedAddress(derive_address(Account1)),
     EstablishedAddress(derive_address(Account2)),
     EstablishedAddress(derive_address(AccountZero)),
     EstablishedAddress(derive_address(AccountTwice)),
     PublicKey("k1"), PublicKey("k2")}
SignValidators == {derive_address(Account1), derive_address(Account2)}
SignAmounts == {[amount |-> 2, denom |-> 0], [amount |-> 3, denom |-> 0]}

\* the bond data that differ from data in exactly one field
OneFieldChanged(data) ==
    {[data EXCEPT !.source = src] : src \in SignSources \ {data.source}}
    \cup {[data EXCEPT !.validator = v] :
                v \in SignValidators \ {data.validator}}
    \cup {[data EXCEPT !.amount = a] : a \in SignAmounts \ {data.amount}}

\* the fields of an unsigned validator-account tx
ValidatorFields ==
    {"address", "vp", "commission_rate", "max_commission_rate_change",
     "net_address", "metadata", "consensus_key", "protocol_key",
     "tendermint_node_key", "eth_hot_key", "eth_cold_key"}

\* the signed validator tx with another value in one field of its unsigned
\* form; the authorizations are left as they are
FieldChanged(tx, field) ==
    CASE field = "address" ->
            [tx EXCEPT !.address = derive_address(Account2)]
      [] field = "vp" -> [tx EXCEPT !.vp = "vp_other"]
      [] field = "commission_rate" -> [tx EXCEPT !.commission_rate = "0.06"]
      [] field = "max_commission_rate_change" ->
            [tx EXCEPT !.max_commission_rate_change = "0.02"]
      [] field = "net_address" -> [tx EXCEPT !.net_address = "10.0.0.1:26656"]
      [] field = "metadata" -> [tx EXCEPT !.metadata = "other@example.org"]
      [] field = "consensus_key" -> [tx EXCEPT !.consensus_key.pk = "changed_pk"]
      [] field = "protocol_key" -> [tx EXCEPT !.protocol_key.pk = "changed_pk"]
      [] field = "tendermint_node_key" ->
            [tx EXCEPT !.tendermint_node_key.pk = "changed_pk"]
      [] field = "eth_hot_key" -> [tx EXCEPT !.eth_hot_key.pk = "changed_pk"]
      [] field = "eth_cold_key" -> [tx EXCEPT !.eth_cold_key.pk = "changed_pk"]

\* the key lists and thresholds verify_sig is called with: those of the
\* accounts and of the two public-key sources
VerifyChoices ==
    {<<a.public_keys, a.threshold>> : a \in EstablishedChoices \cup {AccountTwice}}
    \cup {<<(<<k>>), 1>> : k \in Keys}

\* the lists of distinct keys of the wallet
SignKeyLists(wallet) ==
    {l \in SeqsUpTo(wallet, Cardinality(wallet)) :
        \A m, n \in DOMAIN l : m # n => l[m] # l[n]}

\* the established_accounts argument: absent, empty, and lists of the
\* accounts
SignEstablished ==
    {None, Some(<< >>), Some(<<Account1>>), Some(<<Account2, Account1>>),
     Some(<<AccountTwice>>)}

SignValidatorIdle ==
    /\ sv_wallet = None
    /\ sv_unsigned = None
    /\ sv_signed = None
    /\ sv_tampered = ""
    /\ sv_errors = None

\* a bond about to be signed with a wallet and the established accounts of
\* the batch
InitSignBond ==
    /\ sg_pc = "bond"
    /\ sg_wallet \in SUBSET Keys
    /\ sg_established \in SignEstablished
    /\ sg_unsigned \in
        {Some([source |-> src, validator |-> derive_address(Account1),
               amount |-> [amount |-> 2, denom |-> 0]]) : src \in SignSources}
    /\ sg_signed = None
    /\ sg_calls = << >>
    /\ sg_tampered = None
    /\ sg_verified = None
    /\ SignValidatorIdle

\* a validator-account tx about to be signed with a validator wallet
InitSignValidator ==
    /\ sg_pc = "validator"
    /\ sv_wallet \in {Some(w) : w \in Wallets}
    /\ sv_unsigned = Some(UnsignedValidator(derive_address(Account1),
                                            "vp_user"))
    /\ sv_signed = None
    /\ sv_tampered = ""
    /\ sv_errors = None
    /\ sg_wallet = {}
    /\ sg_established = None
    /\ sg_unsigned = None
    /\ sg_signed = None
    /\ sg_calls = << >>
    /\ sg_tampered = None
    /\ sg_verified = None

InitSign ==
    /\ InitSignBond \/ InitSignValidator
    /\ ValidateIdle
    /\ SigIdle
    /\ TxIdle
    /\ SleepIdle
    /\ SignTxsIdle
    /\ StorageIdle

\* sign_delegation_bond_tx(unsigned_tx, wallet, established_accounts)
SignDelegationBondTx ==
    /\ sg_pc = "bond"
    /\ LET source_keys == look_up_sk_from(Unwrap(sg_unsigned).source,
                                          sg_wallet, sg_established)
           signed == FromBondTx(Unwrap(sg_unsigned))
       IN  IF source_keys.panic
           THEN /\ sg_pc' = "panicked"
                /\ UNCHANGED <<sg_signed, sg_calls>>
           ELSE /\ sg_pc' = "signed"
                /\ sg_signed' = Some(sign(signed, source_keys.keys))
                /\ sg_calls' = <<[key |-> source_keys.keys,
                                  before |-> signed,
                                  after |-> sign(signed, source_keys.keys)]>>
    /\ UNCHANGED <<sg_wallet, sg_established, sg_unsigned, sg_tampered,
                   sg_verified, sv_wallet, sv_unsigned, sv_signed,
                   sv_tampered, sv_errors>>
    /\ UNCHANGED <<valVars, sigVars>>
    /\ UNCHANGED <<txVars, sleepVars, stVars, psVars>>

\* signed.sign(key), with some keys of the wallet in some order
Sign ==
    /\ sg_pc = "signed"
    /\ Len(sg_calls) < MaxSignCalls
    /\ \E key \in SignKeyLists(sg_wallet) :
        /\ sg_signed' = Some(sign(Unwrap(sg_signed), key))
        /\ sg_calls' = Append(sg_calls,
                            [key |-> key,
                             before |-> Unwrap(sg_signed),
                             after |-> sign(Unwrap(sg_signed), key)])
    /\ UNCHANGED <<sg_pc, sg_wallet, sg_established, sg_unsigned,
                   sg_tampered, sg_verified, sv_wallet, sv_unsigned,
                   sv_signed, sv_tampered, sv_errors>>
    /\ UNCHANGED <<valVars, sigVars>>
    /\ UNCHANGED <<txVars, sleepVars, stVars, psVars>>

\* the pub fields of the signed bond are written: source, validator or
\* amount gets another value
ChangeBondData ==
    /\ sg_pc = "signed"
    /\ sg_tampered = None
    /\ \E data \in OneFieldChanged(Unwrap(sg_signed).data) :
        sg_signed' = Some([Unwrap(sg_signed) EXCEPT !.data = data])
    /\ sg_tampered' = sg_signed
    /\ UNCHANGED <<sg_pc, sg_wallet, sg_established, sg_unsigned, sg_calls,
                   sg_verified, sv_wallet, sv_unsigned, sv_signed,
                   sv_tampered, sv_errors>>
    /\ UNCHANGED <<valVars, sigVars>>
    /\ UNCHANGED <<txVars, sleepVars, stVars, psVars>>

\* signed.verify_sig(pks, threshold)
VerifySigned ==
    /\ sg_pc = "signed"
    /\ \E choice \in VerifyChoices :
        sg_verified' = Some([pks |-> choice[1], threshold |-> choice[2],
                             result |-> verify_sig(Unwrap(sg_signed),
                                                   choice[1], choice[2])])
    /\ sg_pc' = "verified"
    /\ UNCHANGED <<sg_wallet, sg_established, sg_unsigned, sg_signed,
                   sg_calls, sg_tampered, sv_wallet, sv_unsigned, sv_signed,
                   sv_tampered, sv_errors>>
    /\ UNCHANGED <<valVars, sigVars>>
    /\ UNCHANGED <<txVars, sleepVars, stVars, psVars>>

\* sign_validator_account_tx(unsigned_tx, validator_wallet)
SignValidatorAccountTx ==
    /\ sg_pc = "validator"
    /\ sv_signed' = Some(sign_validator_account_tx(Unwrap(sv_unsigned),
                                                   Unwrap(sv_wallet)))
    /\ sg_pc' = "validator_signed"
    /\ UNCHANGED <<sg_wallet, sg_established, sg_unsigned, sg_signed,
                   sg_calls, sg_tampered, sg_verified, sv_wallet,
                   sv_unsigned, sv_tampered, sv_errors>>
    /\ UNCHANGED <<valVars, sigVars>>
    /\ UNCHANGED <<txVars, sleepVars, stVars, psVars>>

\* a pub field of the signed validator tx is written
ChangeValidatorField ==
    /\ sg_pc = "validator_signed"
    /\ sv_tampered = ""
    /\ \E field \in ValidatorFields :
        /\ sv_signed' = Some(FieldChanged(Unwrap(sv_signed), field))
        /\ sv_tampered' = field
    /\ UNCHANGED <<sg_pc, sg_wallet, sg_established, sg_unsigned, sg_signed,
                   sg_calls, sg_tampered, sg_verified, sv_wallet,
                   sv_unsigned, sv_errors>>
    /\ UNCHANGED <<valVars, sigVars>>
    /\ UNCHANGED <<txVars, sleepVars, stVars, psVars>>

\* validate_validator_account on the signed tx, with both accounts
\* established and no validator seen yet
ValidateSignedValidator ==
    /\ sg_pc = "validator_signed"
    /\ sv_errors' = Some(validate_validator_account(
                            Unwrap(sv_signed), Some(ValidityPredicates),
                            {derive_address(Account1),
                             derive_address(Account2)},
                            {}).errors)
    /\ sg_pc' = "validator_validated"
    /\ UNCHANGED <<sg_wallet, sg_established, sg_unsigned, sg_signed,
                   sg_calls, sg_tampered, sg_verified, sv_wallet,
                   sv_unsigned, sv_signed, sv_tampered>>
    /\ UNCHANGED <<valVars, sigVars>>
    /\ UNCHANGED <<txVars, sleepVars, stVars, psVars>>

NextSign ==
    \/ SignDelegationBondTx
    \/ Sign
    \/ ChangeBondData
    \/ VerifySigned
    \/ SignValidatorAccountTx
    \/ ChangeValidatorField
    \/ ValidateSignedValidator

SpecSign == InitSign /\ [][NextSign]_vars

----------------------------------------------------------------------------
(* sign_txs: signing the bonds and the validator accounts of a batch *)

\* sign_delegation_bond_tx: whether look_up_sk_from panics, and the signed
\* bond
sign_delegation_bond_tx(unsigned_tx, wallet, accounts) ==
    LET source_keys == look_up_sk_from(unsigned_tx.source, wallet, accounts)
    IN  [panic |-> source_keys.panic,
         signed |-> sign(FromBondTx(unsigned_tx), source_keys.keys)]

\* sign_txs: the panic it ends in, if any, and the Transactions it returns.
\* The bonds are signed first; the validator wallet is asked for when the
\* validator_account section is present, before its txs are gone through
sign_txs(txs, wallet, validator_wallet) ==
    LET bonds == [n \in DOMAIN Txs(txs.bond) |->
                    sign_delegation_bond_tx(Txs(txs.bond)[n], wallet,
                                            txs.established_account)]
    IN  IF \E n \in DOMAIN bonds : bonds[n].panic
        THEN [panic |-> "signing_failed", value |-> None]
        ELSE IF IsSome(txs.validator_account) /\ ~IsSome(validator_wallet)
        THEN [panic |-> "validator_wallet_required", value |-> None]
        ELSE [panic |-> "",
              value |-> Some(
                [established_account |-> txs.established_account,
                 validator_account |->
                    IF IsSome(txs.validator_account)
                    THEN Some([n \in DOMAIN Unwrap(txs.validator_account) |->
                            sign_validator_account_tx(
                                Unwrap(txs.validator_account)[n],
                                Unwrap(validator_wallet))])
                    ELSE None,
                 bond |-> IF IsSome(txs.bond)
                          THEN Some([n \in DOMAIN bonds |-> bonds[n].signed])
                          ELSE None])]

\* the unsigned bonds of the batches given to sign_txs
UnsignedBonds ==
    {[source |-> src, validator |-> derive_address(Account1),
      amount |-> [amount |-> 2, denom |-> 0]] :
        src \in {EstablishedAddress(derive_address(Account1)),
                 PublicKey("k1"), PublicKey("k2")}}

\* the unsigned validator-account sections
UnsignedValidatorSections ==
    {None, Some(<< >>),
     Some(<<UnsignedValidator(derive_address(Account1), "vp_user")>>),
     Some(<<UnsignedValidator(derive_address(Account1), "vp_user"),
            UnsignedValidator(derive_address(Account2), "vp_user")>>)}

\* the UnsignedTransactions given to sign_txs
UnsignedBatches ==
    [established_account : {None, Some(<<Account1>>)},
     validator_account : UnsignedValidatorSections,
     bond : OptionalLists(UnsignedBonds, MaxBonds)]

InitSignTxs ==
    /\ st_txs \in {Some(txs) : txs \in UnsignedBatches}
    /\ st_wallet \in SUBSET Keys
    /\ st_validator_wallet \in {None, Some(ValidatorWallet)}
    /\ st_result = None
    /\ ValidateIdle
    /\ SigIdle
    /\ SignIdle
    /\ TxIdle
    /\ SleepIdle
    /\ StorageIdle

\* sign_txs(txs, wallet, validator_wallet)
SignTxs ==
    /\ IsSome(st_txs)
    /\ st_result = None
    /\ st_result' = Some(sign_txs(Unwrap(st_txs), st_wallet,
                                  st_validator_wallet))
    /\ UNCHANGED <<st_txs, st_wallet, st_validator_wallet>>
    /\ UNCHANGED <<valVars, sigVars, signVars, txVars, sleepVars, psVars>>

NextSignTxs == SignTxs

SpecSignTxs == InitSignTxs /\ [][NextSignTxs]_vars

----------------------------------------------------------------------------
(* Protocol parameters in storage (crates/parameters/src/lib.rs)           *)
(*                                                                         *)
(* The storage is a map from keys to values; a value written under a key   *)
(* is read back as it was written, and a key never written is absent.      *)

\* most calls of init_storage and of the update functions on one storage
MaxStorageCalls == 2

\* the keys of the parameters, one for each getter of the storage module
ParameterKeys ==
    {"max_tx_bytes", "max_proposal_bytes", "max_block_gas", "epoch_duration",
     "fee_unshielding_gas_limit", "vp_allowlist", "tx_allowlist",
     "implicit_vp", "epochs_per_year", "masp_epoch_multiplier",
     "max_signatures_per_transaction", "gas_cost",
     "native_token_transferable"}

\* str::to_lowercase on the ids of the allowlists
to_lowercase(id) ==
    CASE id = "VpUser" -> "vpuser"
      [] id = "TXHASH" -> "txhash"
      [] OTHER -> id

\* variant with a fault: the id is kept as it is
lowercased_kept(list) == list

\* iter().map(|id| id.to_lowercase()).collect()
lowercased(list) == [n \in DOMAIN list |-> to_lowercase(list[n])]

\* Hash::default()
HashDefault == "hash_zero"
\* Option<Hash>::unwrap_or_default()
unwrap_or_default(hash) == IF IsSome(hash) THEN Unwrap(hash) ELSE HashDefault

\* storage.write(key, value)
write(storage, key, value) ==
    [k \in DOMAIN storage \cup {key} |->
        IF k = key THEN value ELSE storage[k]]

\* the thirteen writes of init_storage
init_storage(params, storage) ==
    LET written ==
            [k \in ParameterKeys |->
                CASE k = "max_tx_bytes" -> params.max_tx_bytes
                  [] k = "max_proposal_bytes" -> params.max_proposal_bytes
                  [] k = "max_block_gas" -> params.max_block_gas
                  [] k = "epoch_duration" -> params.epoch_duration
                  [] k = "fee_unshielding_gas_limit" ->
                        params.fee_unshielding_gas_limit
                  [] k = "vp_allowlist" -> lowercased(params.vp_allowlist)
                  [] k = "tx_allowlist" -> lowercased(params.tx_allowlist)
                  [] k = "implicit_vp" ->
                        unwrap_or_default(params.implicit_vp_code_hash)
                  [] k = "epochs_per_year" -> params.epochs_per_year
                  [] k = "masp_epoch_multiplier" ->
                        params.masp_epoch_multiplier
                  [] k = "max_signatures_per_transaction" ->
                        params.max_signatures_per_transaction
                  [] k = "gas_cost" -> params.minimum_gas_price
                  [] k = "native_token_transferable" ->
                        params.is_native_token_transferable]
    IN  [k \in DOMAIN storage \cup ParameterKeys |->
            IF k \in ParameterKeys THEN written[k] ELSE storage[k]]

\* the update functions
update_vp_allowlist_parameter(storage, value) ==
    write(storage, "vp_allowlist", lowercased(value))
update_tx_allowlist_parameter(storage, value) ==
    write(storage, "tx_allowlist", lowercased(value))
update_epoch_parameter(storage, value) ==
    write(storage, "epoch_duration", value)
update_epochs_per_year_parameter(storage, value) ==
    write(storage, "epochs_per_year", value)
update_implicit_vp(storage, implicit_vp) ==
    write(storage, "implicit_vp", implicit_vp)
update_max_signature_per_tx(storage, value) ==
    write(storage, "max_signatures_per_transaction", value)

\* the results of read
ReadOk(params) == [ok |-> TRUE, value |-> params]
ParametersMissing == [ok |-> FALSE, value |-> "ParametersMissing"]

\* read: ParametersMissing at the first key that is absent, the parameters
\* otherwise
read(storage) ==
    IF \E k \in ParameterKeys : k \notin DOMAIN storage
    THEN ParametersMissing
    ELSE ReadOk([max_tx_bytes |-> storage["max_tx_bytes"],
                 epoch_duration |-> storage["epoch_duration"],
                 max_proposal_bytes |-> storage["max_proposal_bytes"],
                 max_block_gas |-> storage["max_block_gas"],
                 vp_allowlist |-> storage["vp_allowlist"],
                 tx_allowlist |-> storage["tx_allowlist"],
                 implicit_vp_code_hash |-> Some(storage["implicit_vp"]),
                 epochs_per_year |-> storage["epochs_per_year"],
                 masp_epoch_multiplier |-> storage["masp_epoch_multiplier"],
                 max_signatures_per_transaction |->
                    storage["max_signatures_per_transaction"],
                 minimum_gas_price |-> storage["gas_cost"],
                 fee_unshielding_gas_limit |->
                    storage["fee_unshielding_gas_limit"],
                 is_native_token_transferable |->
                    storage["native_token_transferable"]])

\* the parameters given to init_storage
GenesisParameters ==
    [max_tx_bytes : {1024},
     epoch_duration : {[min_num_of_blocks |-> 4, min_duration |-> 60]},
     max_proposal_bytes : {2048},
     max_block_gas : {100},
     vp_allowlist : {<< >>, <<"VpUser">>, <<"vpuser", "TXHASH">>},
     tx_allowlist : {<< >>, <<"TXHASH">>},
     implicit_vp_code_hash : {None, Some("hash_a")},
     epochs_per_year : {365},
     masp_epoch_multiplier : {2},
     max_signatures_per_transaction : {10},
     minimum_gas_price : {[nam |-> 1]},
     fee_unshielding_gas_limit : {20},
     is_native_token_transferable : {TRUE}]

\* parameters written earlier, all different from the ones above
StaleParameters ==
    [max_tx_bytes |-> 512,
     epoch_duration |-> [min_num_of_blocks |-> 1, min_duration |-> 1],
     max_proposal_bytes |-> 1000,
     max_block_gas |-> 50,
     vp_allowlist |-> <<"stale">>,
     tx_allowlist |-> <<"stale">>,
     implicit_vp_code_hash |-> Some("hash_stale"),
     epochs_per_year |-> 100,
     masp_epoch_multiplier |-> 1,
     max_signatures_per_transaction |-> 5,
     minimum_gas_price |-> [nam |-> 9],
     fee_unshielding_gas_limit |-> 7,
     is_native_token_transferable |-> FALSE]

\* the storage with key k taken out
WithoutKey(storage, k) == [j \in DOMAIN storage \ {k} |-> storage[j]]

\* the storages: empty, holding a key of another module, holding earlier
\* parameters, and holding all of them but one
Storages ==
    LET other == write(EmptyMap, "pos_params", "pos")
        stale == init_storage(StaleParameters, other)
    IN  {EmptyMap, other, stale}
        \cup {WithoutKey(stale, k) : k \in ParameterKeys}

InitParametersStorage ==
    /\ ps_storage \in {Some(s) : s \in Storages}
    /\ ps_parameters \in {Some(p) : p \in GenesisParameters}
    /\ ps_calls = << >>
    /\ ps_read = None
    /\ ValidateIdle
    /\ SigIdle
    /\ SignIdle
    /\ TxIdle
    /\ SleepIdle
    /\ SignTxsIdle

\* a call that takes the storage to after, writing under key
StorageCall(fn, key, after_) ==
    /\ IsSome(ps_storage)
    /\ Len(ps_calls) < MaxStorageCalls
    /\ ps_storage' = Some(after_)
    /\ ps_calls' = Append(ps_calls,
                        [fn |-> fn, key |-> key,
                         before |-> Unwrap(ps_storage), after |-> after_])
    /\ UNCHANGED <<ps_parameters, ps_read>>
    /\ UNCHANGED <<valVars, sigVars, signVars, txVars, sleepVars, stVars>>

InitStorage ==
    /\ IsSome(ps_storage)
    /\ StorageCall("init_storage", "",
                   init_storage(Unwrap(ps_parameters), Unwrap(ps_storage)))

UpdateVpAllowlistParameter ==
    /\ IsSome(ps_storage)
    /\ \E value \in {<<"VpUser", "vp_other">>, << >>} :
        StorageCall("update_vp_allowlist_parameter", "vp_allowlist",
                    update_vp_allowlist_parameter(Unwrap(ps_storage), value))

UpdateTxAllowlistParameter ==
    /\ IsSome(ps_storage)
    /\ StorageCall("update_tx_allowlist_parameter", "tx_allowlist",
                   update_tx_allowlist_parameter(Unwrap(ps_storage),
                                                 <<"TXHASH">>))

UpdateEpochParameter ==
    /\ IsSome(ps_storage)
    /\ StorageCall("update_epoch_parameter", "epoch_duration",
                   update_epoch_parameter(
                        Unwrap(ps_storage),
                        [min_num_of_blocks |-> 8, min_duration |-> 120]))

UpdateEpochsPerYearParameter ==
    /\ IsSome(ps_storage)
    /\ StorageCall("update_epochs_per_year_parameter", "epochs_per_year",
                   update_epochs_per_year_parameter(Unwrap(ps_storage), 730))

UpdateImplicitVp ==
    /\ IsSome(ps_storage)
    /\ StorageCall("update_implicit_vp", "implicit_vp",
                   update_implicit_vp(Unwrap(ps_storage), "hash_b"))

UpdateMaxSignaturePerTx ==
    /\ IsSome(ps_storage)
    /\ StorageCall("update_max_signature_per_tx",
                   "max_signatures_per_transaction",
                   update_max_signature_per_tx(Unwrap(ps_storage), 15))

\* read(storage), once, after any number of calls
Read ==
    /\ IsSome(ps_storage)
    /\ ps_read = None
    /\ ps_read' = Some([calls |-> Len(ps_calls),
                        storage |-> Unwrap(ps_storage),
                        result |-> read(Unwrap(ps_storage))])
    /\ UNCHANGED <<ps_storage, ps_parameters, ps_calls>>
    /\ UNCHANGED <<valVars, sigVars, signVars, txVars, sleepVars, stVars>>

NextParametersStorage ==
    \/ InitStorage
    \/ UpdateVpAllowlistParameter
    \/ UpdateTxAllowlistParameter
    \/ UpdateEpochParameter
    \/ UpdateEpochsPerYearParameter
    \/ UpdateImplicitVp
    \/ UpdateMaxSignaturePerTx
    \/ Read

SpecParametersStorage ==
    InitParametersStorage /\ [][NextParametersStorage]_vars

----------------------------------------------------------------------------
(* Transactions: merge, the voting power of the validators, and             *)
(* init_established_account                                                  *)

\* Transactions::default()
DefaultTransactions ==
    [established_account |-> None, validator_account |-> None, bond |-> None]

\* variant with a fault: the list of other is taken only when self has none
MergeField_or(mine, theirs) == IF IsSome(mine) THEN mine ELSE theirs

\* self.<field>.take().map(|mut txs| { append the list of other, if any })
\*     .or(other.<field>)
MergeField(mine, theirs) ==
    IF IsSome(mine)
    THEN IF IsSome(theirs) THEN Some(Unwrap(mine) \o Unwrap(theirs))
         ELSE mine
    ELSE theirs

\* self after self.merge(other)
merge(self, other) ==
    [established_account |->
        MergeField(self.established_account, other.established_account),
     validator_account |->
        MergeField(self.validator_account, other.validator_account),
     bond |-> MergeField(self.bond, other.bond)]

\* into_tm_voting_power(votes_per_token, stake): the stake times the votes
\* per token, rounded down; votes_per_token is the fraction num / den
into_tm_voting_power(votes_per_token, stake) ==
    (stake * votes_per_token.num) \div votes_per_token.den

\* the stakes map after the first n bonds: the entry of a validator
RECURSIVE StakeOf(_, _, _)
StakeOf(txs, n, validator) ==
    IF n = 0 THEN 0
    ELSE StakeOf(txs, n - 1, validator)
        + (IF txs[n].validator = validator THEN txs[n].amount.amount ELSE 0)

\* variant with a fault: every bond is converted by itself
has_validator_with_positive_voting_power_perbond(self, votes_per_token) ==
    IF IsSome(self.bond)
    THEN \E n \in DOMAIN Unwrap(self.bond) :
            into_tm_voting_power(votes_per_token,
                                 Unwrap(self.bond)[n].amount.amount) > 0
    ELSE FALSE

\* self.has_validator_with_positive_voting_power(votes_per_token)
has_validator_with_positive_voting_power(self, votes_per_token) ==
    IF IsSome(self.bond)
    THEN LET txs == Unwrap(self.bond)
             stakes == {txs[n].validator : n \in DOMAIN txs}
         IN  \E validator \in stakes :
                into_tm_voting_power(votes_per_token,
                                     StakeOf(txs, Len(txs), validator)) > 0
    ELSE FALSE

\* variant with a fault: the address is derived before the threshold is set
init_established_account_early(vp, public_keys, threshold_) ==
    LET unsigned_tx == [vp |-> vp, threshold |-> threshold_,
                        public_keys |-> public_keys]
    IN  [address |-> derive_address([unsigned_tx EXCEPT !.threshold = 1]),
         txs |-> [DefaultTransactions EXCEPT
                    !.established_account = Some(<<unsigned_tx>>)]]

\* init_established_account(vp, public_keys, threshold): the address and the
\* transactions it returns
init_established_account(vp, public_keys, threshold_) ==
    LET unsigned_tx == [vp |-> vp, threshold |-> threshold_,
                        public_keys |-> public_keys]
    IN  [address |-> derive_address(unsigned_tx),
         txs |-> [DefaultTransactions EXCEPT
                    !.established_account = Some(<<unsigned_tx>>)]]

\* validated bonds of amounts 0, 1 and 2 to either validator
VotingBonds ==
    [source : {PublicKey("k2")},
     validator : SignValidators,
     amount : {[amount |-> a, denom |-> NATIVE_MAX_DECIMAL_PLACES] :
                    a \in 0..2}]

\* votes per token: 0, 1/3, 1/2 and 1
VotesPerToken ==
    {[num |-> 0, den |-> 1], [num |-> 1, den |-> 3], [num |-> 1, den |-> 2],
     [num |-> 1, den |-> 1]}

\* validator lists: absent, empty, and one validator
ValidatorLists ==
    {None, Some(<< >>),
     Some(<<sign_validator_account_tx(
                UnsignedValidator(derive_address(Account1), "vp_user"),
                ValidatorWallet)>>)}

\* the operands of merge
MergeOperands ==
    [established_account : {None, Some(<< >>), Some(<<Account1>>)},
     validator_account :
        {None,
         Some(<<sign_validator_account_tx(
                    UnsignedValidator(derive_address(Account1), "vp_user"),
                    ValidatorWallet)>>)},
     bond : {None} \cup {Some(<<b>>) : b \in
                {t \in VotingBonds : t.amount.amount = 1}}]

InitAccountIdle ==
    /\ ia_args = None
    /\ ia_result = None

\* validated transactions with bonds of every stake
InitVotingPower ==
    /\ tx_self \in
        {Some(t) : t \in
            [established_account : {None},
             validator_account : ValidatorLists,
             bond : OptionalLists(VotingBonds, MaxBonds)]}
    /\ tx_other = Some(DefaultTransactions)
    /\ tx_third = Some(DefaultTransactions)
    /\ tx_votes_per_token \in {Some(v) : v \in VotesPerToken}
    /\ InitAccountIdle

\* three batches to merge
InitMerge ==
    /\ tx_self \in {Some(t) : t \in MergeOperands}
    /\ tx_other \in {Some(t) : t \in MergeOperands}
    /\ tx_third \in {Some(t) : t \in MergeOperands}
    /\ tx_votes_per_token = Some([num |-> 1, den |-> 2])
    /\ InitAccountIdle

\* the arguments of init_established_account
InitInitAccount ==
    /\ ia_args \in
        {Some(a) : a \in [vp : VpNames, public_keys : SeqsUpTo(Keys, MaxKeys),
                          threshold : 0..MaxThreshold]}
    /\ ia_result = None
    /\ tx_self = None
    /\ tx_other = None
    /\ tx_third = None
    /\ tx_votes_per_token = None

InitTransactions ==
    /\ InitVotingPower \/ InitMerge \/ InitInitAccount
    /\ tx_merges = << >>
    /\ tx_has_validator = None
    /\ tx_positive_power = None
    /\ ValidateIdle
    /\ SigIdle
    /\ SignIdle
    /\ SleepIdle
    /\ SignTxsIdle
    /\ StorageIdle

\* self.merge(other), with either of the two other batches
Merge ==
    /\ IsSome(tx_self)
    /\ Len(tx_merges) < MaxMerges
    /\ \E other \in {Unwrap(tx_other), Unwrap(tx_third)} :
        /\ tx_self' = Some(merge(Unwrap(tx_self), other))
        /\ tx_merges' = Append(tx_merges,
                            [self |-> Unwrap(tx_self), other |-> other,
                             after |-> merge(Unwrap(tx_self), other)])
    /\ UNCHANGED <<tx_other, tx_third, tx_votes_per_token, tx_has_validator,
                   tx_positive_power, ia_args, ia_result>>
    /\ UNCHANGED <<valVars, sigVars, signVars, sleepVars, stVars, psVars>>

\* self.has_validator_with_positive_voting_power(votes_per_token)
HasValidatorWithPositiveVotingPower ==
    /\ IsSome(tx_self)
    /\ tx_positive_power = None
    /\ tx_positive_power' =
        Some([self |-> Unwrap(tx_self),
              result |-> has_validator_with_positive_voting_power(
                            Unwrap(tx_self), Unwrap(tx_votes_per_token))])
    /\ UNCHANGED <<tx_self, tx_other, tx_third, tx_votes_per_token,
                   tx_merges, tx_has_validator, ia_args, ia_result>>
    /\ UNCHANGED <<valVars, sigVars, signVars, sleepVars, stVars, psVars>>

\* init_established_account(vp, public_keys, threshold)
InitEstablishedAccount ==
    /\ IsSome(ia_args)
    /\ ia_result = None
    /\ ia_result' = Some(init_established_account(
                            Unwrap(ia_args).vp, Unwrap(ia_args).public_keys,
                            Unwrap(ia_args).threshold))
    /\ UNCHANGED <<tx_self, tx_other, tx_third, tx_votes_per_token,
                   tx_merges, tx_has_validator, tx_positive_power, ia_args>>
    /\ UNCHANGED <<valVars, sigVars, signVars, sleepVars, stVars, psVars>>

NextTransactions ==
    \/ Merge
    \/ HasAtLeastOneValidator
    \/ HasValidatorWithPositiveVotingPower
    \/ InitEstablishedAccount

SpecTransactions == InitTransactions /\ [][NextTransactions]_vars

(***************************************************************************)
(* SleepStrategy: run and timeout (types/control_flow/timeouts.rs)         *)
(*                                                                         *)
(* Time is a counter of clock ticks.  The future returned by run/timeout   *)
(* makes progress only when it is polled; between two polls the clock may  *)
(* advance.  The task built by future_gen is the one that signals          *)
(* completion at its sl_breaks_at-th attempt (0: never).                   *)
(***************************************************************************)

\* the clock stops at MaxTime
MaxTime == 4
\* attempts are counted up to MaxAttempts
MaxAttempts == 3
\* sleep durations and backoff deltas range over 0..MaxSleep
MaxSleep == 2

Constant(d) == [kind |-> "Constant", d |-> d]
LinearBackoff(delta) == [kind |-> "LinearBackoff", d |-> delta]

\* the value the task breaks with
TaskValue == "ret"
Ok(v) == [ok |-> TRUE, value |-> v]
Elapsed == [ok |-> FALSE, value |-> "Elapsed"]
Pending == None
Ready(v) == Some(v)

\* variant with a fault: the backoff does not grow
sleep_update_flat(self, backoff) ==
    [backoff |-> backoff, duration |-> self.d]

\* sleep_update: the new backoff and the duration of the sleep
sleep_update(self, backoff) ==
    IF self.kind = "Constant"
    THEN [backoff |-> backoff, duration |-> self.d]
    ELSE [backoff |-> backoff + self.d, duration |-> backoff + self.d]

\* one attempt of the loop of run: the n-th task built by future_gen is
\* awaited; Break ends the loop with the value, Continue goes to sleep
run_attempt(self, n, backoff, breaks_at) ==
    IF n = breaks_at
    THEN [poll |-> Ready(TaskValue), backoff |-> backoff, duration |-> 0]
    ELSE [poll |-> Pending,
          backoff |-> sleep_update(self, backoff).backoff,
          duration |-> sleep_update(self, backoff).duration]

\* the deadline handed to timeout_at has passed
deadline_elapsed(deadline, now) == IsSome(deadline) /\ now >= Unwrap(deadline)

\* run without a deadline: whatever the loop yields
timeout_nodeadline(inner, deadline, now) ==
    IF IsSome(inner) THEN Some(Ok(Unwrap(inner))) ELSE None

\* timeout: the value of the loop if it is ready, Error::Elapsed if it is not
\* and the deadline has passed; run alone has no deadline (None)
timeout(inner, deadline, now) ==
    IF IsSome(inner) THEN Some(Ok(Unwrap(inner)))
    ELSE IF deadline_elapsed(deadline, now) THEN Some(Elapsed)
    ELSE None

SleepStrategies ==
    {Constant(d) : d \in 0..MaxSleep} \cup {LinearBackoff(d) : d \in 0..MaxSleep}

\* how long an attempt may take
AttemptTimes == {0, 1}

InitSleep ==
    /\ sl_strategy \in {Some(s) : s \in SleepStrategies}
    /\ sl_deadline \in {None} \cup {Some(t) : t \in 0..MaxTime}
    /\ sl_breaks_at \in 0..MaxAttempts
    /\ sl_now = 0
    /\ sl_backoff = 0
    /\ sl_pc = "start"
    /\ sl_wake = 0
    /\ sl_attempts = 0
    /\ sl_result = None
    /\ sl_completed_at = None
    /\ sl_sleeps = << >>
    /\ ValidateIdle
    /\ SigIdle
    /\ SignIdle
    /\ TxIdle
    /\ SignTxsIdle
    /\ StorageIdle

\* the clock advances while the call has not returned
Tick ==
    /\ sl_pc \in {"start", "sleeping"}
    /\ sl_now < MaxTime
    /\ sl_now' = sl_now + 1
    /\ UNCHANGED <<sl_strategy, sl_deadline, sl_breaks_at, sl_backoff, sl_pc,
                   sl_wake, sl_attempts, sl_result, sl_completed_at,
                   sl_sleeps>>
    /\ UNCHANGED <<valVars, sigVars, signVars, txVars, stVars, psVars>>

\* the loop of run is at its start or its sleep is over
LoopRunnable == sl_pc = "start" \/ (sl_pc = "sleeping" /\ sl_now >= sl_wake)

\* one poll of the future of timeout (of run when there is no deadline): the
\* loop is polled first and runs one attempt if it is not asleep, then the
\* deadline is looked at
Poll ==
    /\ sl_pc \in {"start", "sleeping"}
    /\ LoopRunnable \/ deadline_elapsed(sl_deadline, sl_now)
    /\ IF LoopRunnable
       THEN \E dt \in AttemptTimes :
            LET n == sl_attempts + 1
                t == IF sl_now + dt <= MaxTime THEN sl_now + dt ELSE sl_now
                a == run_attempt(Unwrap(sl_strategy), n, sl_backoff,
                                 sl_breaks_at)
                out == timeout(a.poll, sl_deadline, t)
            IN  /\ sl_now' = t
                /\ sl_attempts' = IF n <= MaxAttempts THEN n ELSE MaxAttempts
                /\ sl_backoff' = a.backoff
                /\ sl_wake' = IF IsSome(a.poll) THEN sl_wake
                              ELSE t + a.duration
                /\ sl_completed_at' = IF IsSome(a.poll) THEN Some(t)
                                      ELSE sl_completed_at
                /\ sl_sleeps' = IF IsSome(a.poll) \/ n > MaxAttempts
                                THEN sl_sleeps
                                ELSE Append(sl_sleeps, a.duration)
                /\ sl_result' = out
                /\ sl_pc' = IF IsSome(out) THEN "returned" ELSE "sleeping"
       ELSE LET out == timeout(Pending, sl_deadline, sl_now)
            IN  /\ sl_result' = out
                /\ sl_pc' = IF IsSome(out) THEN "returned" ELSE "sleeping"
                /\ UNCHANGED <<sl_now, sl_attempts, sl_backoff, sl_wake,
                               sl_completed_at, sl_sleeps>>
    /\ UNCHANGED <<sl_strategy, sl_deadline, sl_breaks_at>>
    /\ UNCHANGED <<valVars, sigVars, signVars, txVars, stVars, psVars>>

NextSleep ==
    \/ Tick
    \/ Poll

\* a future that can make progress is polled again, and the clock does not
\* stop before MaxTime
SpecSleep ==
    InitSleep /\ [][NextSleep]_vars /\ WF_vars(Tick) /\ WF_vars(Poll)

----------------------------------------------------------------------------
(* Properties of validate *)

EstablishedTxs == Txs(transactions.established_account)
ValidatorTxs == Txs(transactions.validator_account)
BondTxs == Txs(transactions.bond)

\* every tx of every section was checked and passed, and the parameters are
\* there when there are bonds
AllPassed ==
    /\ Len(ea_returned) = Len(EstablishedTxs)
    /\ \A n \in DOMAIN ea_returned : ea_returned[n].is_valid
    /\ Len(va_returned) = Len(ValidatorTxs)
    /\ \A n \in DOMAIN va_returned : va_returned[n].is_valid
    /\ BondTxs # << >> =>
        /\ IsSome(parameters)
        /\ Len(bond_returned) = Len(BondTxs)
        /\ \A n \in DOMAIN bond_returned : IsSome(bond_returned[n].result)

\* C1: validate returns a validated batch if and only if every
\* established-account tx passed validate_established_account, every
\* validator-account tx passed validate_validator_account and every bond
\* passed validate_bond, the parameters being present whenever the bond list
\* is non-empty; in every other case it returns None.
C1_ValidateIffAllPassed ==
    pc = "done" => (IsSome(result) <=> AllPassed)

\* a batch with all three sections non-empty was accepted
C1_Witness ==
    /\ pc = "done"
    /\ IsSome(result)
    /\ EstablishedTxs # << >>
    /\ ValidatorTxs # << >>
    /\ Len(BondTxs) > 1

\* C2: validate_established_account rejects a tx whenever its threshold is
\* 0, its threshold exceeds its number of public keys, or it has more than
\* 255 public keys, whatever its other fields; and a tx with threshold t and
\* n keys, 1 <= t <= n <= 255, a vp of the validity predicates file and an
\* address not seen before is accepted.
C2_ThresholdAndKeyCount ==
    \A n \in DOMAIN ea_returned :
        LET tx == EstablishedTxs[n]
            t == tx.threshold
            keys == Len(tx.public_keys)
        IN  /\ (t = 0 \/ t > keys \/ keys > 255) => ~ea_returned[n].is_valid
            /\ ( /\ 1 <= t /\ t <= keys /\ keys <= 255
                 /\ IsSome(vps) /\ tx.vp \in Unwrap(vps)
                 /\ \A m \in 1..(n - 1) :
                        ea_returned[m].address # ea_returned[n].address )
               => ea_returned[n].is_valid

\* a tx with 255 keys and threshold 255 was accepted
C2_Witness ==
    \E n \in DOMAIN ea_returned :
        /\ EstablishedTxs[n].threshold = 255
        /\ Len(EstablishedTxs[n].public_keys) = 255
        /\ ea_returned[n].is_valid

\* the positions of the txs whose address an earlier tx of the list has
Repeats(returned) ==
    {n \in DOMAIN returned :
        \E m \in 1..(n - 1) : returned[m].address = returned[n].address}

\* C3: when two established-account txs of one batch derive the same
\* address, the later one is reported invalid and validate returns None; a
\* tx is not reported as a duplicate when no earlier tx has its address; the
\* set of used addresses holds each derived address once.
C3_EstablishedAddressesUnique ==
    /\ \A n \in DOMAIN ea_returned :
        /\ n \in Repeats(ea_returned) =>
            /\ ~ea_returned[n].is_valid
            /\ "duplicate_address" \in ea_returned[n].errors
        /\ n \notin Repeats(ea_returned) =>
            "duplicate_address" \notin ea_returned[n].errors
    /\ all_used_addresses = {ea_returned[n].address : n \in DOMAIN ea_returned}
    /\ Cardinality(all_used_addresses)
         = Len(ea_returned) - Cardinality(Repeats(ea_returned))
    /\ (pc = "done" /\ Repeats(ea_returned) # {}) => result = None

\* a batch whose second established account repeats the first, valid, one
\* was rejected
C3_Witness ==
    /\ pc = "done"
    /\ Repeats(ea_returned) = {2}
    /\ ea_returned[1].is_valid
    /\ ea_returned[2].errors = {"duplicate_address"}
    /\ result = None

\* the positions of the validator txs whose established address no
\* established-account tx of the batch derives
Unfounded ==
    {n \in DOMAIN va_returned :
        \A m \in DOMAIN EstablishedTxs :
            derive_address(EstablishedTxs[m]) # ValidatorTxs[n].address}

\* C4: a validator-account tx whose established address was not derived
\* from any established-account tx of the same batch is invalid, and
\* validate returns None for that batch, also when every established
\* account and every bond passes.
C4_ValidatorNeedsEstablishedAccount ==
    /\ \A n \in Unfounded :
        /\ ~va_returned[n].is_valid
        /\ "no_established_account" \in va_returned[n].errors
    /\ (pc = "done" /\ Unfounded # {}) => result = None

\* a batch was rejected for such a validator alone: its established accounts
\* and its bonds all passed
C4_Witness ==
    /\ pc = "done"
    /\ Unfounded # {}
    /\ \A n \in Unfounded : va_returned[n].errors = {"no_established_account"}
    /\ EstablishedTxs # << >>
    /\ \A n \in DOMAIN ea_returned : ea_returned[n].is_valid
    /\ BondTxs # << >>
    /\ Len(bond_returned) = Len(BondTxs)
    /\ \A n \in DOMAIN bond_returned : IsSome(bond_returned[n].result)
    /\ result = None

\* C5: a validator-account tx whose address is that of an earlier
\* validator-account tx of the batch is invalid and the batch is rejected;
\* a tx is not reported as a duplicate when no earlier tx has its address;
\* the validator set holds each validator address once.
C5_ValidatorAddressesUnique ==
    /\ \A n \in DOMAIN va_returned :
        /\ va_returned[n].address = ValidatorTxs[n].address
        /\ n \in Repeats(va_returned) =>
            /\ ~va_returned[n].is_valid
            /\ "duplicate_validator" \in va_returned[n].errors
        /\ n \notin Repeats(va_returned) =>
            "duplicate_validator" \notin va_returned[n].errors
    /\ validator_accounts = {va_returned[n].address : n \in DOMAIN va_returned}
    /\ Cardinality(validator_accounts)
         = Len(va_returned) - Cardinality(Repeats(va_returned))
    /\ (pc = "done" /\ Repeats(va_returned) # {}) => result = None

\* a batch whose second validator repeats the first, valid, one was rejected
C5_Witness ==
    /\ pc = "done"
    /\ Repeats(va_returned) = {2}
    /\ va_returned[1].is_valid
    /\ va_returned[2].errors = {"duplicate_validator"}
    /\ result = None

\* the authorization of a role is a signature by the role's own public key
\* over the unsigned form of the tx
Authorized(tx, role) ==
    /\ RoleKey(tx, role).authorization.signer = RoleKey(tx, role).pk
    /\ RoleKey(tx, role).authorization.msg
         = [address |-> tx.address, vp |-> tx.vp,
            commission_rate |-> tx.commission_rate,
            max_commission_rate_change |-> tx.max_commission_rate_change,
            net_address |-> tx.net_address, metadata |-> tx.metadata,
            consensus_key |-> tx.consensus_key.pk,
            protocol_key |-> tx.protocol_key.pk,
            tendermint_node_key |-> tx.tendermint_node_key.pk,
            eth_hot_key |-> tx.eth_hot_key.pk,
            eth_cold_key |-> tx.eth_cold_key.pk]

\* C6: validate_validator_account verifies the authorization of each of the
\* five roles against the unsigned form of the tx and the role's own public
\* key, reports every role whose authorization fails whatever the other
\* roles' checks gave, and returns valid only if all five verify.
C6_AllFiveAuthorizationsChecked ==
    \A n \in DOMAIN va_returned :
        /\ \A k \in 1..5 :
            Roles[k] \in va_returned[n].errors
                <=> ~Authorized(ValidatorTxs[n], Roles[k])
        /\ va_returned[n].is_valid =>
            \A k \in 1..5 : Authorized(ValidatorTxs[n], Roles[k])

\* a validator tx whose first and last authorizations fail and whose other
\* three verify was reported for exactly those two
C6_Witness ==
    \E n \in DOMAIN va_returned :
        /\ va_returned[n].errors = {"consensus_key", "eth_cold_key"}
        /\ ~va_returned[n].is_valid

----------------------------------------------------------------------------
(* Properties of SignedBondTx::verify_sig *)

\* the bond verify_sig was called on
VsSelf == [data |-> vs_data, signatures |-> vs_signatures]

\* sig is a signature of the bond data by the key pk
ValidFor(pk, sig) == sig.signer = pk /\ sig.msg = data_to_sign(vs_data)

\* the distinct candidate keys that have a valid signature in the list
DistinctSigners ==
    {pk \in {vs_pks[n] : n \in DOMAIN vs_pks} :
        \E n \in DOMAIN vs_signatures : ValidFor(pk, vs_signatures[n])}

\* what the caller sees of a result: Ok or the error with its fields
Outcome(r) == [ok |-> r.ok, err |-> r.err, required |-> r.required,
               actual |-> r.actual]

\* C7: verify_sig succeeds only if at least `threshold` distinct public keys
\* of the candidate key list each have a valid signature over the bond data
\* in the signature list, for every threshold and also for candidate lists
\* that hold a key more than once.
C7_SucceedsOnlyWithThresholdDistinctKeys ==
    (IsSome(vs_result) /\ Unwrap(vs_result).ok)
        => Cardinality(DistinctSigners) >= vs_threshold

\* C8: a candidate key is counted at most once: adding a further copy of an
\* already-satisfied key to the candidate list, or a further valid signature
\* by it to the signature list, changes neither the accept/reject result nor
\* the count reported.
C8_SatisfiedKeyCountsOnce ==
    (IsSome(vs_result) /\ Len(vs_pks) < U8_MAX) =>
        \A n \in DOMAIN vs_pks :
            vs_pks[n] \in DistinctSigners =>
                /\ Outcome(verify_sig(VsSelf, Append(vs_pks, vs_pks[n]),
                                      vs_threshold))
                     = Outcome(Unwrap(vs_result))
                /\ Outcome(verify_sig(
                        [VsSelf EXCEPT !.signatures =
                            Append(vs_signatures,
                                   standalone_signature(
                                        vs_pks[n], data_to_sign(vs_data)))],
                        vs_pks, vs_threshold))
                     = Outcome(Unwrap(vs_result))

\* the part of C8 about signatures alone: a further valid signature by an
\* already-satisfied key, put anywhere in the list, changes nothing
C8_FurtherSignaturesChangeNothing ==
    IsSome(vs_result) =>
        \A pk \in DistinctSigners : \A at \in 0..Len(vs_signatures) :
            Outcome(verify_sig(
                [VsSelf EXCEPT !.signatures =
                    SubSeq(vs_signatures, 1, at)
                    \o <<standalone_signature(pk, data_to_sign(vs_data))>>
                    \o SubSeq(vs_signatures, at + 1, Len(vs_signatures))],
                vs_pks, vs_threshold))
              = Outcome(Unwrap(vs_result))

\* the permutations of a list; a list of equal elements has only itself
Perms(list) ==
    IF \A m, n \in DOMAIN list : list[m] = list[n] THEN {list}
    ELSE {[n \in DOMAIN list |-> list[f[n]]] : f \in Permutations(DOMAIN list)}

\* C9: the accept/reject result of verify_sig is the same for every
\* permutation of the candidate keys and every permutation of the
\* signatures.
C9_OrderNeverChangesTheResult ==
    IsSome(vs_result) =>
        \A keys \in Perms(vs_pks) : \A sigs \in Perms(vs_signatures) :
            verify_sig([VsSelf EXCEPT !.signatures = sigs], keys,
                       vs_threshold).ok
              = Unwrap(vs_result).ok

\* a bond with two signatures was accepted against two different keys, each
\* signature being that of the other position's key
C9_Witness ==
    /\ IsSome(vs_result)
    /\ Unwrap(vs_result).ok
    /\ vs_threshold = 2
    /\ vs_pks = <<"k1", "k2">>
    /\ Len(vs_signatures) = 2
    /\ ValidFor("k2", vs_signatures[1])
    /\ ValidFor("k1", vs_signatures[2])

\* C10: verify_sig returns the too-many-keys error, without verifying any
\* signature, whenever the candidate key list has more than 255 entries,
\* whatever the threshold and the signatures; with at most 255 entries it
\* never returns that error.
C10_TooManyKeysIffAbove255 ==
    IsSome(vs_result) =>
        /\ Len(vs_pks) > 255 =>
            /\ Unwrap(vs_result).err = "TooGoddamnBig"
            /\ ~Unwrap(vs_result).ok
            /\ Unwrap(vs_result).calls = {}
        /\ Len(vs_pks) <= 255 => Unwrap(vs_result).err # "TooGoddamnBig"

\* a call with 256 keys, threshold 0 and a valid signature of the key got
\* the error
C10_Witness ==
    /\ IsSome(vs_result)
    /\ Len(vs_pks) = 256
    /\ vs_threshold = 0
    /\ DistinctSigners # {}
    /\ Unwrap(vs_result).err = "TooGoddamnBig"

----------------------------------------------------------------------------
(* Claims about the bonds pass of validate *)

\* the established-account txs of the batch that derive the address
RegisteredAs(address) ==
    {m \in DOMAIN EstablishedTxs :
        derive_address(EstablishedTxs[m]) = address}

\* the last of them: the one the registry of Pass 1 keeps
Registered(address) ==
    EstablishedTxs[CHOOSE m \in RegisteredAs(address) :
                        \A k \in RegisteredAs(address) : k <= m]

\* the validator addresses of the batch
BatchValidators == {ValidatorTxs[m].address : m \in DOMAIN ValidatorTxs}

\* the ledger before the n-th call of validate_bond
LedgerBefore(n) ==
    IF n = 1 THEN WorkingBalances(balances)
    ELSE bond_returned[n - 1].balances

\* the amount of a bond tx in units of 10^-6, when it has at most six
\* decimal places
MicroAmount(tx) ==
    tx.data.amount.amount
        * Pow10(NATIVE_MAX_DECIMAL_PLACES - tx.data.amount.denom)

\* the native token has an entry for the source of the tx in the ledger
HasBalance(tx, ledger) ==
    /\ "nam" \in DOMAIN ledger
    /\ tx.data.source \in DOMAIN ledger["nam"]

\* C11: validate_bond verifies the signatures of a bond against the public
\* keys and the threshold of the established account of the batch that its
\* source names, and against the single key with threshold 1 when the source
\* is a public key; a bond whose established source is the address of no
\* established account of the batch is invalid, and a bond is invalid
\* whenever that threshold verification fails.
C11_BondSignaturesCheckedAgainstSource ==
    \A n \in DOMAIN bond_returned :
        LET tx == BondTxs[n]
            r == bond_returned[n]
            src == tx.data.source
        IN  /\ src.kind = "PublicKey" =>
                /\ "source_not_found" \notin r.errors
                /\ "invalid_signature" \in r.errors
                    <=> ~verify_sig(tx, <<src.val>>, 1).ok
            /\ src.kind = "EstablishedAddress" /\ RegisteredAs(src.val) = {} =>
                /\ "source_not_found" \in r.errors
                /\ r.result = None
            /\ src.kind = "EstablishedAddress" /\ RegisteredAs(src.val) # {} =>
                /\ "source_not_found" \notin r.errors
                /\ "invalid_signature" \in r.errors
                    <=> ~verify_sig(tx, Registered(src.val).public_keys,
                                    Registered(src.val).threshold).ok
            /\ "invalid_signature" \in r.errors => r.result = None

\* a bond of the 2-of-2 account signed with both keys was accepted, after a
\* bond of that account with one signature was refused
C11_Witness ==
    /\ Len(bond_returned) > 1
    /\ \E n \in DOMAIN bond_returned :
        /\ BondTxs[n].data.source
            = EstablishedAddress(derive_address(Account2))
        /\ Len(BondTxs[n].signatures) = 2
        /\ IsSome(bond_returned[n].result)
    /\ \E n \in DOMAIN bond_returned :
        "invalid_signature" \in bond_returned[n].errors

\* C12: a bond is valid only if its target validator is the address of a
\* validator-account tx of the batch; a bond to any other validator is
\* invalid and the batch is rejected.
C12_BondTargetIsBatchValidator ==
    \A n \in DOMAIN bond_returned :
        /\ IsSome(bond_returned[n].result) =>
            BondTxs[n].data.validator \in BatchValidators
        /\ BondTxs[n].data.validator \notin BatchValidators =>
            /\ bond_returned[n].result = None
            /\ pc = "done" => result = None

\* a batch was rejected for a bond whose only fault is its target
C12_Witness ==
    /\ pc = "done"
    /\ result = None
    /\ \E n \in DOMAIN bond_returned :
        /\ bond_returned[n].errors = {"validator_not_found"}
        /\ BondTxs[n].data.validator \notin BatchValidators
    /\ \A n \in DOMAIN bond_returned :
        bond_returned[n].errors \subseteq {"validator_not_found"}

\* every established-account and validator-account tx of the batch passed
AccountsPassed ==
    /\ Len(ea_returned) = Len(EstablishedTxs)
    /\ Len(va_returned) = Len(ValidatorTxs)
    /\ \A n \in DOMAIN ea_returned : ea_returned[n].is_valid
    /\ \A n \in DOMAIN va_returned : va_returned[n].is_valid

\* C13: with a non-empty bond list and no parameters validate returns
\* nothing; with an absent or empty bond list the absence of parameters never
\* causes rejection: the batch is accepted exactly when its accounts pass.
C13_BondsNeedParameters ==
    pc = "done" /\ ~IsSome(parameters) =>
        /\ BondTxs # << >> => result = None
        /\ BondTxs = << >> => (IsSome(result) <=> AccountsPassed)

\* a batch whose accounts all passed was rejected because it has bonds and
\* there are no parameters
C13_Witness ==
    /\ pc = "done"
    /\ ~IsSome(parameters)
    /\ BondTxs # << >>
    /\ EstablishedTxs # << >>
    /\ AccountsPassed
    /\ result = None

\* C14: while bonds are validated every entry of the working ledger is
\* non-negative and at most the value the balance snapshot has for it.
C14_LedgerWithinSnapshot ==
    \A t \in DOMAIN token_balances :
        \A a \in DOMAIN token_balances[t] :
            /\ IsSome(balances)
            /\ t \in DOMAIN Unwrap(balances)
            /\ a \in DOMAIN Unwrap(balances)[t]
            /\ token_balances[t][a].amount >= 0
            /\ token_balances[t][a].amount <= Unwrap(balances)[t][a].amount

\* a bond was refused for an insufficient balance after a debit of the same
\* source left less than the snapshot value
C14_Witness ==
    /\ pc = "bond"
    /\ \E n \in DOMAIN bond_returned :
        /\ "insufficient_balance" \in bond_returned[n].errors
        /\ HasBalance(BondTxs[n], token_balances)
        /\ token_balances["nam"][BondTxs[n].data.source].amount
            < Unwrap(balances)["nam"][BondTxs[n].data.source].amount

\* the balance of a source in a ledger: 0 when it has no entry
BalanceOf(ledger, source) ==
    IF "nam" \in DOMAIN ledger /\ source \in DOMAIN ledger["nam"]
    THEN ledger["nam"][source].amount ELSE 0

\* the sum of the amounts of the bonds of a source that validate_bond
\* returned, among the first n calls
RECURSIVE Accepted(_, _)
Accepted(source, n) ==
    IF n = 0 THEN 0
    ELSE Accepted(source, n - 1)
        + (IF IsSome(bond_returned[n].result)
              /\ BondTxs[n].data.source = source
           THEN Unwrap(bond_returned[n].result).amount.amount ELSE 0)

\* C15: the remaining balance of every source is its snapshot balance minus
\* the amounts of the bonds from it that were accepted; a rejected bond
\* takes nothing. Violated: validate_bond debits the ledger for a bond it
\* refuses for its signatures or its target validator.
C15_BalanceConservation ==
    \A n \in DOMAIN bond_returned :
        BalanceOf(token_balances, BondTxs[n].data.source)
            = BalanceOf(WorkingBalances(balances), BondTxs[n].data.source)
                - Accepted(BondTxs[n].data.source, Len(bond_returned))

\* C16: a bond is refused and the ledger is left as it was when the native
\* token has no entry in the ledger (also when there is no balance
\* snapshot), when the source has no balance, and when the amount exceeds
\* the balance; the batch then yields no result.
C16_BalanceFailureLeavesLedger ==
    \A n \in DOMAIN bond_returned :
        LET tx == BondTxs[n]
            before == LedgerBefore(n)
        IN  \/ "nam" \notin DOMAIN before
            \/ tx.data.source \notin DOMAIN before["nam"]
            \/ /\ tx.data.amount.denom <= NATIVE_MAX_DECIMAL_PLACES
               /\ MicroAmount(tx) > before["nam"][tx.data.source].amount
            => /\ bond_returned[n].result = None
               /\ bond_returned[n].balances = before
               /\ pc = "done" => result = None

\* a batch was rejected for a bond, good otherwise, of more than the balance
\* that an earlier bond left to its source
C16_Witness ==
    /\ pc = "done"
    /\ result = None
    /\ \E n \in DOMAIN bond_returned :
        /\ n > 1
        /\ bond_returned[n].errors = {"insufficient_balance"}
        /\ LedgerBefore(n) # WorkingBalances(balances)
        /\ bond_returned[n].balances = LedgerBefore(n)

\* the four checks of a bond, from the batch: signatures, conversion of
\* the amount, target validator, balance
BondPasses(n) ==
    LET tx == BondTxs[n]
        src == tx.data.source
    IN  /\ IF src.kind = "PublicKey"
           THEN verify_sig(tx, <<src.val>>, 1).ok
           ELSE /\ RegisteredAs(src.val) # {}
                /\ verify_sig(tx, Registered(src.val).public_keys,
                              Registered(src.val).threshold).ok
        /\ tx.data.amount.denom <= NATIVE_MAX_DECIMAL_PLACES
        /\ MicroAmount(tx) <= UintMax
        /\ tx.data.validator \in BatchValidators
        /\ HasBalance(tx, LedgerBefore(n))
        /\ MicroAmount(tx) <= LedgerBefore(n)["nam"][src].amount

\* C17: the validated bond list holds a bond only if it passed the
\* signature, conversion, validator and balance checks; when fewer bonds
\* pass than were submitted nothing is returned.
C17_OnlyPassingBondsValidated ==
    /\ \A n \in DOMAIN bond_returned :
        IsSome(bond_returned[n].result) =>
            /\ BondPasses(n)
            /\ bond_returned[n].errors = {}
    /\ Len(validated_vec)
        = Cardinality({n \in DOMAIN bond_returned :
                            IsSome(bond_returned[n].result)})
    /\ pc = "done" /\ IsSome(result) /\ BondTxs # << >> =>
        /\ result # None
        /\ Unwrap(result).bond
            = Some([n \in DOMAIN BondTxs |->
                        Unwrap(bond_returned[n].result)])
        /\ \A n \in DOMAIN BondTxs : BondPasses(n)
    /\ pc = "done"
        /\ (\E n \in DOMAIN BondTxs :
                n > Len(bond_returned) \/ ~IsSome(bond_returned[n].result))
        => result = None

\* a batch of passing bonds was returned with its bonds validated
C17_Witness ==
    /\ pc = "done"
    /\ IsSome(result)
    /\ Len(BondTxs) > 1
    /\ Unwrap(result).bond = Some(validated_vec)
    /\ \A n \in DOMAIN BondTxs : BondPasses(n)

----------------------------------------------------------------------------
(* Claims about signing *)

\* the signatures of the signed bond made before its data was changed, and
\* those made after
EarlierSignatures == Unwrap(sg_tampered).signatures
LaterSignatures ==
    SubSeq(Unwrap(sg_signed).signatures, Len(EarlierSignatures) + 1,
           Len(Unwrap(sg_signed).signatures))

\* the key lists and thresholds of small accounts
SmallChoices == SeqsUpTo(Keys, MaxKeys) \X (0..MaxThreshold)

\* C18: changing a signed field after signing invalidates every signature
\* made over the original content: a signed bond whose source, validator or
\* amount was changed has no earlier signature that verifies for any key,
\* and verify_sig accepts it exactly when it accepts the bond with only the
\* signatures made after the change; a signed validator-account tx with any
\* field of its unsigned form changed, role public keys included, fails all
\* five authorization checks.
C18_ChangedFieldInvalidatesSignatures ==
    /\ sg_tampered # None =>
        /\ \A n \in DOMAIN EarlierSignatures :
            \A k \in Keys :
                ~verify_standalone_sig(
                    data_to_sign(Unwrap(sg_signed).data), k,
                    EarlierSignatures[n])
        /\ \A choice \in SmallChoices :
            verify_sig(Unwrap(sg_signed), choice[1], choice[2]).ok
                = verify_sig([data |-> Unwrap(sg_signed).data,
                              signatures |-> LaterSignatures],
                             choice[1], choice[2]).ok
        /\ sg_verified # None =>
            Unwrap(sg_verified).result.ok
                = verify_sig([data |-> Unwrap(sg_signed).data,
                              signatures |-> LaterSignatures],
                             Unwrap(sg_verified).pks,
                             Unwrap(sg_verified).threshold).ok
    /\ sv_tampered # "" =>
        /\ \A k \in 1..5 : RoleAuthorizationFails(Unwrap(sv_signed), Roles[k])
        /\ sv_errors # None =>
            \A k \in 1..5 : Roles[k] \in Unwrap(sv_errors)

\* a bond that verify_sig accepted for the 2-of-2 account before its data was
\* changed was refused after it
C18_Witness ==
    /\ sg_pc = "verified"
    /\ sg_tampered # None
    /\ LaterSignatures = << >>
    /\ Unwrap(sg_verified).pks = Account2.public_keys
    /\ Unwrap(sg_verified).threshold = Account2.threshold
    /\ verify_sig(Unwrap(sg_tampered), Account2.public_keys,
                  Account2.threshold).ok
    /\ ~Unwrap(sg_verified).result.ok

\* the source of the unsigned bond cannot be resolved to its signers
Unresolved ==
    LET source == Unwrap(sg_unsigned).source
    IN  IF source.kind = "PublicKey" THEN source.val \notin sg_wallet
        ELSE \/ ~IsSome(sg_established)
             \/ \A n \in DOMAIN Unwrap(sg_established) :
                    derive_address(Unwrap(sg_established)[n]) # source.val

\* C19: sign_delegation_bond_tx panics whenever the source of the bond cannot
\* be resolved to its signers (a public-key source whose secret key is not
\* in the wallet, an established source that is the derived address of no
\* established-account tx of the batch), and it never returns a bond with no
\* signature. Violated: with a non-empty list of established accounts a
\* public-key source that the wallet does not hold gives a bond without
\* signatures, and so does an established source none of whose keys is in
\* the wallet.
C19_UnresolvedSourcePanics ==
    sg_pc \in {"signed", "verified", "panicked"} =>
        /\ Unresolved => sg_pc = "panicked"
        /\ sg_calls # << >> => sg_calls[1].after.signatures # << >>

\* the keys of the first n calls of sign, in call and key order
RECURSIVE KeysOfCalls(_)
KeysOfCalls(n) ==
    IF n = 0 THEN << >> ELSE KeysOfCalls(n - 1) \o sg_calls[n].key

\* C20: SignedBondTx::sign only appends: each call leaves the bond data as
\* it was and the signature list is the earlier list followed by one
\* signature per key of the call, in key order; a bond signed in several
\* calls is accepted by verify_sig exactly when the bond signed once with
\* all the keys of those calls is.
C20_SignOnlyAppends ==
    /\ \A n \in DOMAIN sg_calls :
        LET call == sg_calls[n]
        IN  /\ call.after.data = call.before.data
            /\ Len(call.after.signatures)
                = Len(call.before.signatures) + Len(call.key)
            /\ \A m \in DOMAIN call.before.signatures :
                call.after.signatures[m] = call.before.signatures[m]
            /\ \A m \in DOMAIN call.key :
                call.after.signatures[Len(call.before.signatures) + m]
                    = standalone_signature(call.key[m],
                                           data_to_sign(call.before.data))
            /\ IF n = 1
               THEN call.before = FromBondTx(Unwrap(sg_unsigned))
               ELSE call.before.signatures = sg_calls[n - 1].after.signatures
    /\ sg_calls # << >> =>
        Unwrap(sg_signed).signatures
            = sg_calls[Len(sg_calls)].after.signatures
    /\ sg_calls # << >> /\ sg_tampered = None =>
        LET once == SignedBond(Unwrap(sg_unsigned),
                               KeysOfCalls(Len(sg_calls)))
        IN  /\ Unwrap(sg_signed) = once
            /\ \A choice \in SmallChoices :
                verify_sig(Unwrap(sg_signed), choice[1], choice[2]).ok
                    = verify_sig(once, choice[1], choice[2]).ok
            /\ sg_verified # None =>
                Unwrap(sg_verified).result.ok
                    = verify_sig(once, Unwrap(sg_verified).pks,
                                 Unwrap(sg_verified).threshold).ok

\* a bond of the 2-of-2 account signed with k1 in one call and with k2 in
\* the next was accepted by verify_sig
C20_Witness ==
    /\ sg_pc = "verified"
    /\ sg_tampered = None
    /\ Len(sg_calls) = 2
    /\ sg_calls[1].key = <<"k1">>
    /\ sg_calls[2].key = <<"k2">>
    /\ Unwrap(sg_verified).pks = Account2.public_keys
    /\ Unwrap(sg_verified).threshold = Account2.threshold
    /\ Unwrap(sg_verified).result.ok

----------------------------------------------------------------------------
(* Claims about whole batches and about Transactions *)

\* the batch of one 1-of-1 account with a registered vp, one validator of
\* its address with five valid authorizations, and one bond from the
\* account to the validator signed by the account key, within its balance
EndToEndBatch ==
    /\ EstablishedTxs = <<Account1>>
    /\ Len(ValidatorTxs) = 1
    /\ ValidatorTxs[1].address = derive_address(Account1)
    /\ \A k \in 1..5 : Authorized(ValidatorTxs[1], Roles[k])
    /\ VpExists(vps, Account1.vp) /\ VpExists(vps, ValidatorTxs[1].vp)
    /\ Len(BondTxs) = 1
    /\ BondTxs[1].data.source
        = EstablishedAddress(derive_address(Account1))
    /\ BondTxs[1].data.validator = derive_address(Account1)
    /\ verify_sig(BondTxs[1], Account1.public_keys, Account1.threshold).ok
    /\ IsSome(parameters)
    /\ HasBalance(BondTxs[1], WorkingBalances(balances))
    /\ BondTxs[1].data.amount.denom <= NATIVE_MAX_DECIMAL_PLACES
    /\ MicroAmount(BondTxs[1])
        <= WorkingBalances(balances)["nam"][BondTxs[1].data.source].amount

\* C21: the batch of one 1-of-1 account, one validator of it and one bond
\* from it within its balance is accepted by validate and
\* has_at_least_one_validator is true on the result; on every result
\* has_at_least_one_validator is true exactly when the validator list is
\* present and not empty.
C21_EndToEndAccepted ==
    /\ pc = "done" /\ EndToEndBatch =>
        /\ IsSome(result)
        /\ tx_has_validator # None => Unwrap(tx_has_validator)
    /\ pc = "done" /\ tx_has_validator # None =>
        (Unwrap(tx_has_validator)
            <=> /\ Unwrap(result).validator_account # None
                /\ Unwrap(Unwrap(result).validator_account) # << >>)

\* has_at_least_one_validator was called on the result of the end-to-end
\* batch
C21_Witness ==
    /\ pc = "done"
    /\ EndToEndBatch
    /\ tx_has_validator = Some(TRUE)

\* the sum of the amounts of the bonds at the positions of a set
RECURSIVE SumAt(_, _)
SumAt(txs, positions) ==
    IF positions = {} THEN 0
    ELSE LET n == CHOOSE m \in positions : TRUE
         IN  txs[n].amount.amount + SumAt(txs, positions \ {n})

\* the aggregate stake of a validator in a list of validated bonds
AggregateStake(txs, validator) ==
    SumAt(txs, {n \in DOMAIN txs : txs[n].validator = validator})

\* C22: has_validator_with_positive_voting_power(v) is true exactly when
\* some validator's sum S of the amounts of the validated bonds to it has
\* floor(S * v) > 0, that is S * num >= den for v = num / den; the amounts
\* are summed before the conversion, and the result is false when there is
\* no bond, also when there are validators.
C22_PositivePowerIffSomeAggregateStake ==
    tx_positive_power # None =>
        LET self == Unwrap(tx_positive_power).self
            v == Unwrap(tx_votes_per_token)
            txs == Txs(self.bond)
        IN  /\ Unwrap(tx_positive_power).result
                <=> \E n \in DOMAIN txs :
                        AggregateStake(txs, txs[n].validator) * v.num >= v.den
            /\ txs = << >> => ~Unwrap(tx_positive_power).result

\* two bonds of 1 to one validator have positive voting power at 1/2 vote
\* per token, where neither bond has by itself
C22_Witness ==
    /\ tx_positive_power # None
    /\ Unwrap(tx_positive_power).result
    /\ Unwrap(tx_votes_per_token) = [num |-> 1, den |-> 2]
    /\ LET txs == Txs(Unwrap(tx_positive_power).self.bond)
       IN  /\ Len(txs) = 2
           /\ txs[1].validator = txs[2].validator
           /\ txs[1].amount.amount = 1
           /\ txs[2].amount.amount = 1

\* the merged field, from the two lists: both in order when both are there,
\* the one that is there otherwise
FieldLaw(mine, theirs, after) ==
    /\ mine # None /\ theirs # None =>
        /\ after # None
        /\ Len(Unwrap(after)) = Len(Unwrap(mine)) + Len(Unwrap(theirs))
        /\ \A n \in DOMAIN Unwrap(mine) : Unwrap(after)[n] = Unwrap(mine)[n]
        /\ \A n \in DOMAIN Unwrap(theirs) :
            Unwrap(after)[Len(Unwrap(mine)) + n] = Unwrap(theirs)[n]
    /\ mine # None /\ theirs = None => after = mine
    /\ mine = None /\ theirs # None => after = theirs
    /\ mine = None /\ theirs = None => after = None

\* C23: after a.merge(b) each field of a is a's former list followed by b's
\* list when both were present, the one present list when one was, and
\* absent only when both were; merging with the default batch changes
\* nothing, and merge is associative.
C23_MergeConcatenatesPerField ==
    /\ \A n \in DOMAIN tx_merges :
        LET call == tx_merges[n]
        IN  /\ FieldLaw(call.self.established_account,
                        call.other.established_account,
                        call.after.established_account)
            /\ FieldLaw(call.self.validator_account,
                        call.other.validator_account,
                        call.after.validator_account)
            /\ FieldLaw(call.self.bond, call.other.bond, call.after.bond)
            /\ call.other = DefaultTransactions => call.after = call.self
            /\ call.self = DefaultTransactions => call.after = call.other
            /\ n > 1 => call.self = tx_merges[n - 1].after
            /\ n = Len(tx_merges) => tx_self = Some(call.after)
    /\ Len(tx_merges) >= 2 =>
        tx_merges[2].after
            = merge(tx_merges[1].self,
                    merge(tx_merges[1].other, tx_merges[2].other))

\* a batch with a list was merged with one that has a list and then with
\* one that has none, in a field
C23_Witness ==
    /\ Len(tx_merges) = 2
    /\ tx_merges[1].self.established_account = Some(<<Account1>>)
    /\ tx_merges[1].other.established_account = Some(<<Account1>>)
    /\ tx_merges[2].other.established_account = None
    /\ tx_merges[1].self.bond = None
    /\ tx_merges[1].other.bond = None
    /\ tx_merges[2].other.bond # None

\* C24: the address that init_established_account returns for a tx is the
\* address under which validate_established_account registers the tx and the
\* address that look_up_sk_from matches a bond source against, so a
\* validator or a bond that names the returned address resolves to the
\* account in signing and in validation.
C24_OneAddressPerContent ==
    ia_result # None =>
        LET address == Unwrap(ia_result).address
            txs == Unwrap(ia_result).txs
            tx == Unwrap(txs.established_account)[1]
            registered == validate_established_account(
                            tx, Some(ValidityPredicates), {}, EmptyMap)
            looked_up == look_up_sk_from(EstablishedAddress(address), Keys,
                                         txs.established_account)
        IN  /\ tx = [vp |-> Unwrap(ia_args).vp,
                     threshold |-> Unwrap(ia_args).threshold,
                     public_keys |-> Unwrap(ia_args).public_keys]
            /\ txs = [DefaultTransactions EXCEPT
                        !.established_account = Some(<<tx>>)]
            /\ registered.address = address
            /\ address \in registered.all_used_addresses
            /\ DOMAIN registered.established_accounts = {address}
            /\ BondSigners(EstablishedAddress(address),
                           registered.established_accounts)
                = Some(<<tx.public_keys, tx.threshold>>)
            /\ "no_established_account" \notin
                ValidatorErrors(
                    sign_validator_account_tx(
                        UnsignedValidator(address, "vp_user"),
                        ValidatorWallet),
                    Some(ValidityPredicates), registered.all_used_addresses,
                    {})
            /\ ~looked_up.panic
            /\ looked_up.keys = tx.public_keys

\* init_established_account was called for a 2-of-2 account
C24_Witness ==
    /\ ia_result # None
    /\ Unwrap(ia_args).threshold = 2
    /\ Unwrap(ia_args).public_keys = <<"k1", "k2">>
    /\ Unwrap(ia_result).address
        = derive_address(Unwrap(Unwrap(ia_result).txs.established_account)[1])

----------------------------------------------------------------------------
(* Further properties of SignedBondTx::verify_sig *)

\* the entries of the candidate list whose key has a valid signature in the
\* list of signatures
SignedEntries ==
    {n \in DOMAIN vs_pks :
        \E m \in DOMAIN vs_signatures : ValidFor(vs_pks[n], vs_signatures[m])}

\* C28: when verify_sig rejects with ThresholdNotMet(required, actual),
\* required is the threshold passed in, actual is the number of candidate
\* keys (entries of the candidate list) that have at least one valid
\* signature in the list, and actual < required; the 8-bit counter never
\* wraps for a key list of at most 255 entries: the call succeeds exactly
\* when that number reaches the threshold.
C28_ThresholdNotMetReportsCounts ==
    IsSome(vs_result) =>
        /\ Unwrap(vs_result).err = "ThresholdNotMet" =>
            /\ Unwrap(vs_result).required = vs_threshold
            /\ Unwrap(vs_result).actual = Cardinality(SignedEntries)
            /\ Unwrap(vs_result).actual < Unwrap(vs_result).required
        /\ Len(vs_pks) <= U8_MAX =>
            /\ Unwrap(vs_result).ok
                <=> Cardinality(SignedEntries) >= vs_threshold
            /\ ~Unwrap(vs_result).ok =>
                Unwrap(vs_result).err = "ThresholdNotMet"

\* a call with two candidate keys, one of them with a valid signature, and
\* threshold 2 reported ThresholdNotMet(2, 1)
C28_Witness ==
    /\ IsSome(vs_result)
    /\ Unwrap(vs_result).err = "ThresholdNotMet"
    /\ Len(vs_pks) = 2
    /\ Unwrap(vs_result).required = 2
    /\ Unwrap(vs_result).actual = 1

----------------------------------------------------------------------------
(* Further claims about signing *)

\* the wallet holds, for the role, the secret key of the public key that the
\* unsigned tx declares for it
WalletHoldsRole(role) == Unwrap(sv_wallet)[role] = Unwrap(sv_unsigned)[role]

\* C29: sign_validator_account_tx pairs each of the five role public keys
\* with a signature over the unsigned tx by the wallet's secret key of that
\* role; stripping the authorizations from the result gives the unsigned tx
\* it was given; the authorization of a role passes its check of
\* validate_validator_account exactly when the wallet's key of the role is
\* the secret key of the declared public key, so with the validator's own
\* wallet all five checks pass.
C29_SignsEveryRoleOverUnsigned ==
    sv_signed # None /\ sv_tampered = "" =>
        LET tx == Unwrap(sv_signed)
        IN  /\ Unsigned(tx) = Unwrap(sv_unsigned)
            /\ \A k \in 1..5 :
                /\ RoleKey(tx, Roles[k]).pk = Unwrap(sv_unsigned)[Roles[k]]
                /\ RoleKey(tx, Roles[k]).authorization
                    = [signer |-> Unwrap(sv_wallet)[Roles[k]],
                       msg |-> Unwrap(sv_unsigned)]
                /\ WalletHoldsRole(Roles[k])
                    <=> validate_signature(
                            Unwrap(sv_unsigned), RoleKey(tx, Roles[k]).pk,
                            RoleKey(tx, Roles[k]).authorization)
                /\ sv_errors # None =>
                    (WalletHoldsRole(Roles[k])
                        <=> Roles[k] \notin Unwrap(sv_errors))

\* a validator tx signed with the validator's own wallet passed
\* validate_validator_account
C29_Witness ==
    /\ sg_pc = "validator_validated"
    /\ sv_tampered = ""
    /\ \A k \in 1..5 : WalletHoldsRole(Roles[k])
    /\ sv_errors = Some({})

\* the established-account tx that the source of the unsigned bond matches:
\* the first of the list with that address
MatchedAccount ==
    LET accounts == Unwrap(sg_established)
        first == CHOOSE n \in DOMAIN accounts :
                    /\ derive_address(accounts[n])
                        = Unwrap(sg_unsigned).source.val
                    /\ \A m \in 1..(n - 1) :
                        derive_address(accounts[m])
                            # Unwrap(sg_unsigned).source.val
    IN  accounts[first]

\* the source of the unsigned bond is the address of an account of the list
SourceMatches ==
    /\ sg_unsigned # None
    /\ Unwrap(sg_unsigned).source.kind = "EstablishedAddress"
    /\ ~Unresolved

\* sign_delegation_bond_tx gave one signature for each declared key of the
\* matched account that is in the wallet, in declared order, and no other
OneSignaturePerHeldKey ==
    LET held == SelectSeq(MatchedAccount.public_keys,
                          LAMBDA k : k \in sg_wallet)
        signed == sg_calls[1].after
    IN  /\ signed.data = Unwrap(sg_unsigned)
        /\ Len(signed.signatures) = Len(held)
        /\ \A n \in DOMAIN held :
            signed.signatures[n]
                = [signer |-> held[n],
                   msg |-> <<signed.data.source, signed.data.validator,
                             signed.data.amount>>]

\* the bond passes verify_sig against the matched account exactly when the
\* wallet holds at least threshold of its distinct keys
PassesIffThresholdHeld ==
    verify_sig(sg_calls[1].after, MatchedAccount.public_keys,
               MatchedAccount.threshold).ok
        <=> Cardinality({MatchedAccount.public_keys[n] :
                            n \in DOMAIN MatchedAccount.public_keys}
                        \cap sg_wallet) >= MatchedAccount.threshold

\* C30: for a bond whose source is the address of an established-account tx
\* of the batch, sign_delegation_bond_tx gives one signature for each
\* declared key of the account that the wallet holds, in declared order, and
\* none for other keys, and the bond passes verify_sig against the account
\* exactly when the wallet holds at least threshold of the account's
\* distinct keys. Violated: for an account that lists a key twice verify_sig
\* counts the key twice (C7).
C30_SignsWithEveryHeldKey ==
    SourceMatches /\ sg_calls # << >> =>
        /\ OneSignaturePerHeldKey
        /\ PassesIffThresholdHeld

\* the part of C30 that holds: the signatures made, and the outcome of
\* verify_sig for accounts without a repeated key
C30_ForAccountsWithoutRepeatedKeys ==
    SourceMatches /\ sg_calls # << >> =>
        /\ OneSignaturePerHeldKey
        /\ MatchedAccount # AccountTwice => PassesIffThresholdHeld

----------------------------------------------------------------------------
(* Claims about the order of the transactions and about exact debits *)

\* validate as a function of the batch: Pass 1 on the first n
\* established-account txs
RECURSIVE Pass1(_, _)
Pass1(txs, n) ==
    IF n = 0
    THEN [is_valid |-> TRUE, used |-> {}, accounts |-> EmptyMap]
    ELSE LET before == Pass1(txs, n - 1)
             r == validate_established_account(txs[n], vps, before.used,
                                               before.accounts)
         IN  [is_valid |-> before.is_valid /\ r.is_valid,
              used |-> r.all_used_addresses,
              accounts |-> r.established_accounts]

\* Pass 2 on the first n validator-account txs
RECURSIVE Pass2(_, _, _)
Pass2(txs, n, used) ==
    IF n = 0
    THEN [is_valid |-> TRUE, validators |-> {}]
    ELSE LET before == Pass2(txs, n - 1, used)
             r == validate_validator_account(txs[n], vps, used,
                                             before.validators)
         IN  [is_valid |-> before.is_valid /\ r.is_valid,
              validators |-> r.validator_accounts]

\* Pass 3 on the first n bonds: how many passed, and the ledger
RECURSIVE Pass3(_, _, _, _)
Pass3(txs, n, accounts, validators) ==
    IF n = 0
    THEN [passed |-> 0, ledger |-> WorkingBalances(balances)]
    ELSE LET before == Pass3(txs, n - 1, accounts, validators)
             r == validate_bond(txs[n], before.ledger, accounts, validators,
                                Unwrap(parameters))
         IN  [passed |-> before.passed + (IF IsSome(r.result) THEN 1 ELSE 0),
              ledger |-> r.balances]

\* validate accepts the batch with these three lists
Accepts(established, validators, bonds) ==
    LET first == Pass1(established, Len(established))
        second == Pass2(validators, Len(validators), first.used)
    IN  /\ first.is_valid
        /\ second.is_valid
        /\ bonds # << >> =>
            /\ IsSome(parameters)
            /\ Pass3(bonds, Len(bonds), first.accounts,
                     second.validators).passed = Len(bonds)

\* the function agrees with the steps of validate
AcceptsIsTheResult ==
    pc = "done" =>
        (IsSome(result) <=> Accepts(EstablishedTxs, ValidatorTxs, BondTxs))

\* C26: the accept/reject result of validate is the same for every
\* permutation of the transactions inside each of the three sections of the
\* batch, also with several bonds from one source. Violated: a bond of the
\* whole balance removes the ledger entry of its source, so a bond of amount
\* 0 from that source passes before it and fails after it.
C26_OrderInsideSectionsNeverMatters ==
    pc = "done" =>
        \A established \in Perms(EstablishedTxs) :
            \A validators \in Perms(ValidatorTxs) :
                \A bonds \in Perms(BondTxs) :
                    Accepts(established, validators, bonds) = IsSome(result)

\* the part of C26 that holds: the order of the established accounts and of
\* the validator accounts, and the order of bonds of which none has amount 0
C26_OrderOfAccountsNeverMatters ==
    pc = "done" =>
        \A established \in Perms(EstablishedTxs) :
            \A validators \in Perms(ValidatorTxs) :
                /\ Accepts(established, validators, BondTxs) = IsSome(result)
                /\ (\A n \in DOMAIN BondTxs :
                        BondTxs[n].data.amount.amount # 0) =>
                    \A bonds \in Perms(BondTxs) :
                        Accepts(established, validators, bonds)
                            = IsSome(result)

SleepReports ==
    \* an attempt that signalled completion before the deadline: its value
    /\ IsSome(sl_completed_at) /\ IsSome(sl_deadline)
       /\ Unwrap(sl_completed_at) < Unwrap(sl_deadline)
       => sl_result = Some(Ok(TaskValue))
    \* Elapsed: the deadline has passed and no attempt completed
    /\ sl_result = Some(Elapsed)
       => /\ IsSome(sl_deadline)
          /\ sl_now >= Unwrap(sl_deadline)
          /\ sl_completed_at = None
    \* run, without a deadline, returns only the value of a completed attempt
    /\ sl_deadline = None /\ IsSome(sl_result)
       => /\ IsSome(sl_completed_at)
          /\ sl_result = Some(Ok(TaskValue))
          /\ sl_attempts = sl_breaks_at

\* C25: timeout returns the task's value when an attempt signals completion
\* before the deadline and reports Elapsed only after the deadline passed
\* with no completed attempt; every call with a deadline returns, with
\* Elapsed when the task never signals completion; nothing runs once Elapsed
\* was reported; run without a deadline returns only on completion.
C25_TimeoutReportsElapsedRunOnlyCompletes ==
    /\ []SleepReports
    /\ [][sl_result = Some(Elapsed) => UNCHANGED sleepVars]_vars
    /\ IsSome(sl_deadline) ~> IsSome(sl_result)
    /\ (IsSome(sl_deadline) /\ sl_breaks_at = 0) ~> (sl_result = Some(Elapsed))

\* a task that never completes was attempted several times, with sleeps in
\* between, before the deadline passed and Elapsed was reported
C25_Witness ==
    /\ sl_result = Some(Elapsed)
    /\ sl_breaks_at = 0
    /\ sl_attempts >= 2
    /\ sl_backoff > 0
    /\ Unwrap(sl_deadline) > 0

----------------------------------------------------------------------------
(* Claims about the registry of Pass 1 and about the passes as a whole *)

\* the established-account txs validate_established_account was called on
SeenEstablished ==
    IF pc = "established_account" THEN 1..(i - 1) ELSE DOMAIN EstablishedTxs

\* the addresses they derive
DerivedAddresses ==
    {derive_address(EstablishedTxs[k]) : k \in SeenEstablished}

\* C31: validate_established_account puts every tx it is given in the
\* registry, valid or not: the keys of the registry are the used addresses
\* and are the derived addresses of the established-account txs gone through
\* (all of them after Pass 1), each with the keys and threshold of its tx; a
\* validator or a bond that names an account of the batch, valid or not, is
\* resolved against it.
C31_EveryAccountRegistered ==
    pc # "idle" =>
        /\ DOMAIN established_accounts = DerivedAddresses
        /\ all_used_addresses = DerivedAddresses
        /\ \A k \in SeenEstablished :
            established_accounts[derive_address(EstablishedTxs[k])]
                = <<EstablishedTxs[k].public_keys, EstablishedTxs[k].threshold>>
        /\ \A n \in DOMAIN va_returned :
            "no_established_account" \in va_returned[n].errors
                <=> ValidatorTxs[n].address \notin DerivedAddresses
        /\ \A n \in DOMAIN bond_returned :
            LET tx == BondTxs[n]
                src == tx.data.source
            IN  src.kind = "EstablishedAddress" /\ src.val \in DerivedAddresses
                => /\ "source_not_found" \notin bond_returned[n].errors
                   /\ "invalid_signature" \in bond_returned[n].errors
                        <=> ~verify_sig(tx, Registered(src.val).public_keys,
                                        Registered(src.val).threshold).ok

\* an established-account tx was found invalid, and a validator and a bond
\* that name its address were resolved against it
C31_Witness ==
    /\ pc = "done"
    /\ \E k \in DOMAIN ea_returned :
        /\ ~ea_returned[k].is_valid
        /\ \E n \in DOMAIN va_returned :
            /\ ValidatorTxs[n].address = ea_returned[k].address
            /\ "no_established_account" \notin va_returned[n].errors
        /\ \E n \in DOMAIN bond_returned :
            /\ BondTxs[n].data.source = EstablishedAddress(ea_returned[k].address)
            /\ "source_not_found" \notin bond_returned[n].errors
            /\ "invalid_signature" \notin bond_returned[n].errors

\* the three passes went through every tx of their section
PassesRanInFull ==
    pc \in {"gate", "done"} =>
        /\ Len(ea_returned) = Len(EstablishedTxs)
        /\ Len(va_returned) = Len(ValidatorTxs)
        /\ IsSome(parameters) => Len(bond_returned) = Len(BondTxs)

\* every check of an established-account tx and of a validator-account tx
\* left its diagnostic whenever its condition failed, whatever the others did
AccountChecksEvaluated ==
    /\ \A n \in DOMAIN ea_returned :
        LET tx == EstablishedTxs[n]
            errors == ea_returned[n].errors
        IN  /\ "zero_threshold" \in errors <=> tx.threshold = 0
            /\ "threshold_above_keys" \in errors
                <=> tx.threshold > Len(tx.public_keys)
            /\ "too_many_keys" \in errors <=> Len(tx.public_keys) > U8_MAX
            /\ "duplicate_address" \in errors
                <=> \E m \in 1..(n - 1) :
                        derive_address(EstablishedTxs[m]) = derive_address(tx)
            /\ "vp_not_found" \in errors <=> ~VpExists(vps, tx.vp)
            /\ "no_public_keys" \in errors <=> tx.public_keys = << >>
    /\ \A n \in DOMAIN va_returned :
        LET tx == ValidatorTxs[n]
            errors == va_returned[n].errors
        IN  /\ "no_established_account" \in errors
                <=> tx.address \notin DerivedAddresses
            /\ "duplicate_validator" \in errors
                <=> \E m \in 1..(n - 1) : ValidatorTxs[m].address = tx.address
            /\ "vp_not_found" \in errors <=> ~VpExists(vps, tx.vp)
            /\ \A k \in 1..5 :
                Roles[k] \in errors <=> RoleAuthorizationFails(tx, Roles[k])

\* the target-validator check of the n-th bond was evaluated
TargetCheckEvaluated(n) ==
    "validator_not_found" \in bond_returned[n].errors
        <=> BondTxs[n].data.validator \notin BatchValidators

\* the balance check of the n-th bond was evaluated
BalanceCheckEvaluated(n) ==
    LET tx == BondTxs[n]
        before == LedgerBefore(n)
        errors == bond_returned[n].errors
    IN  /\ "token_not_found" \in errors <=> "nam" \notin DOMAIN before
        /\ "no_balance" \in errors
            <=> "nam" \in DOMAIN before
                /\ tx.data.source \notin DOMAIN before["nam"]
        /\ "insufficient_balance" \in errors
            <=> HasBalance(tx, before)
                /\ before["nam"][tx.data.source].amount < MicroAmount(tx)

\* C32: validate goes through every tx of every section whatever failed
\* before, and for every tx every check is evaluated even when an earlier
\* check of that tx failed. Violated: a bond whose amount cannot be converted
\* is returned for at once, its target validator is never looked up.
C32_EveryCheckOfEveryTxEvaluated ==
    /\ PassesRanInFull
    /\ AccountChecksEvaluated
    /\ \A n \in DOMAIN bond_returned : TargetCheckEvaluated(n)

\* the part of C32 that holds: the passes run in full, every check of an
\* account tx is evaluated, and every check of a bond whose amount converts
C32_ChecksOfConvertibleBondsEvaluated ==
    /\ PassesRanInFull
    /\ AccountChecksEvaluated
    /\ \A n \in DOMAIN bond_returned :
        "bad_amount" \notin bond_returned[n].errors
            => /\ TargetCheckEvaluated(n)
               /\ BalanceCheckEvaluated(n)

\* the list without its n-th element
Without(list, n) == SubSeq(list, 1, n - 1) \o SubSeq(list, n + 1, Len(list))

\* whether each bond of a list is accepted, when Pass 3 is run on the list
\* with the registry and the validators of the batch
RECURSIVE BondOutcomes(_, _)
BondOutcomes(txs, ledger) ==
    IF txs = << >> THEN << >>
    ELSE LET r == validate_bond(Head(txs), ledger, established_accounts,
                                validator_accounts, Unwrap(parameters))
         IN  <<IsSome(r.result)>> \o BondOutcomes(Tail(txs), r.balances)

\* the amount of the n-th bond cannot be converted to fixed precision
Unconvertible(n) ==
    \/ BondTxs[n].data.amount.denom > NATIVE_MAX_DECIMAL_PLACES
    \/ MicroAmount(BondTxs[n]) > UintMax

\* C33: a bond whose amount cannot be converted to fixed precision yields no
\* validated bond and leaves the working ledger as it was, and every other
\* bond of the batch is accepted or rejected as it is when Pass 3 runs on the
\* batch without that bond.
C33_UnconvertibleBondChangesNothing ==
    /\ \A n \in DOMAIN bond_returned :
        Unconvertible(n) =>
            /\ bond_returned[n].result = None
            /\ bond_returned[n].balances = LedgerBefore(n)
    /\ pc \in {"gate", "done"} /\ IsSome(parameters) =>
        /\ BondOutcomes(BondTxs, WorkingBalances(balances))
            = [n \in DOMAIN BondTxs |-> IsSome(bond_returned[n].result)]
        /\ \A n \in DOMAIN BondTxs :
            Unconvertible(n) =>
                BondOutcomes(Without(BondTxs, n), WorkingBalances(balances))
                    = Without(BondOutcomes(BondTxs, WorkingBalances(balances)),
                              n)

\* a bond whose amount cannot be converted was refused and a later bond of
\* the same source, which has a balance, was accepted
C33_Witness ==
    \E n, m \in DOMAIN bond_returned :
        /\ n < m
        /\ Unconvertible(n)
        /\ BondTxs[m].data.source = BondTxs[n].data.source
        /\ HasBalance(BondTxs[n], LedgerBefore(n))
        /\ IsSome(bond_returned[m].result)

----------------------------------------------------------------------------
(* Claims about the sleeps of SleepStrategy::run *)

\* the attempts that signalled Continue, of the first MaxAttempts attempts
Continued == sl_attempts - (IF IsSome(sl_completed_at) THEN 1 ELSE 0)

\* what holds of the sleeps in every state: one sleep for each attempt that
\* signalled Continue and none for the one that signalled Break, none before
\* the first attempt, and the durations the strategy gives
SleepsAsConfigured ==
    sl_pc # "idle" =>
        /\ Len(sl_sleeps) = Continued
        /\ sl_attempts = 0 => sl_pc = "start" /\ sl_sleeps = << >>
        /\ IsSome(sl_completed_at) => sl_attempts = sl_breaks_at
        /\ \A k \in DOMAIN sl_sleeps :
            sl_sleeps[k] = IF Unwrap(sl_strategy).kind = "Constant"
                           THEN Unwrap(sl_strategy).d
                           ELSE k * Unwrap(sl_strategy).d

\* C34: run calls future_gen the first time without sleeping, sleeps once
\* after each attempt that signals Continue and never after the one that
\* signals Break, and starts an attempt only when the sleep after the
\* attempt before it is over, one attempt at a time; under Constant(d) every
\* sleep lasts d and under LinearBackoff{delta} the k-th sleep lasts
\* k * delta.
C34_SleepsOnceBetweenAttempts ==
    /\ []SleepsAsConfigured
    /\ [][/\ Len(sl_sleeps') > Len(sl_sleeps) =>
                /\ sl_sleeps' = Append(sl_sleeps, sl_wake' - sl_now')
                /\ sl_attempts' = sl_attempts + 1
                /\ sl_completed_at' = None
          /\ sl_attempts' # sl_attempts =>
                /\ sl_attempts' = sl_attempts + 1
                /\ sl_pc = "start" \/ sl_now >= sl_wake
                /\ sl_completed_at = None
          /\ IsSome(sl_completed_at') /\ sl_completed_at = None =>
                /\ sl_sleeps' = sl_sleeps
                /\ sl_pc' = "returned"]_vars

\* under LinearBackoff with a positive delta two attempts signalled Continue,
\* each followed by its sleep, and the third returned the value
C34_Witness ==
    /\ IsSome(sl_strategy)
    /\ Unwrap(sl_strategy).kind = "LinearBackoff"
    /\ Unwrap(sl_strategy).d > 0
    /\ Len(sl_sleeps) = 2
    /\ sl_attempts = 3
    /\ sl_result = Some(Ok(TaskValue))

----------------------------------------------------------------------------
(* Claims about the arguments and the result of validate *)

\* the bonds of the batch, denominated, when each of them converts
DenominatedBonds ==
    [n \in DOMAIN BondTxs |-> Unwrap(denominate(BondTxs[n].data))]

\* what validate returns, as a function of its four arguments
ValidateOf ==
    IF Accepts(EstablishedTxs, ValidatorTxs, BondTxs)
    THEN Some([established_account |-> transactions.established_account,
               validator_account |-> transactions.validator_account,
               bond |-> IF BondTxs = << >> THEN None
                        ELSE Some(DenominatedBonds)])
    ELSE None

\* the working copy differs from the snapshot in the native token alone
OnlyNativeTokenTouched ==
    pc \in {"bond", "gate", "done"} =>
        /\ DOMAIN token_balances = DOMAIN WorkingBalances(balances)
        /\ \A t \in DOMAIN token_balances :
            \/ token_balances[t] = WorkingBalances(balances)[t]
            \/ IsSome(parameters) /\ t = Unwrap(parameters).native_token

\* C35: validate leaves the balance snapshot it is given as it was, whether
\* it accepts or rejects the batch; of the working copy only the native
\* token's entries are changed or removed; the result is a function of the
\* arguments, so a second call with the same arguments returns the same.
C35_SnapshotKeptAndResultDetermined ==
    /\ [][balances' = balances /\ transactions' = transactions
          /\ vps' = vps /\ parameters' = parameters]_vars
    /\ []OnlyNativeTokenTouched
    /\ [](pc = "done" => result = ValidateOf)

\* a batch was accepted whose bonds debited the native token of the working
\* copy, the snapshot holding another token too
C35_Witness ==
    /\ pc = "done"
    /\ IsSome(result)
    /\ IsSome(balances)
    /\ "btc" \in DOMAIN token_balances
    /\ token_balances["nam"] # Unwrap(balances)["nam"]

\* C37: when validate accepts a batch the result holds the
\* established-account and the validator-account section as submitted, absent
\* ones absent, and the bonds in the order submitted, each with the source
\* and validator of its tx, the amount in units of 10^-6 and no signatures;
\* a bond section submitted absent or empty is absent in the result.
C37_AcceptedResultIsTheBatch ==
    pc = "done" /\ IsSome(result) =>
        LET r == Unwrap(result)
        IN  /\ r.established_account = transactions.established_account
            /\ r.validator_account = transactions.validator_account
            /\ BondTxs = << >> => r.bond = None
            /\ BondTxs # << >> =>
                /\ IsSome(r.bond)
                /\ Len(Unwrap(r.bond)) = Len(BondTxs)
                /\ \A n \in DOMAIN BondTxs :
                    LET bond == Unwrap(r.bond)[n]
                    IN  /\ DOMAIN bond = {"source", "validator", "amount"}
                        /\ bond.source = BondTxs[n].data.source
                        /\ bond.validator = BondTxs[n].data.validator
                        /\ bond.amount =
                            [amount |-> MicroAmount(BondTxs[n]),
                             denom |-> NATIVE_MAX_DECIMAL_PLACES]

\* a batch of two different signed bonds was accepted
C37_Witness ==
    /\ pc = "done"
    /\ IsSome(result)
    /\ Len(BondTxs) = 2
    /\ BondTxs[1].data.source # BondTxs[2].data.source
    /\ BondTxs[1].signatures # << >>
    /\ IsSome(transactions.established_account)
    /\ IsSome(transactions.validator_account)

----------------------------------------------------------------------------
(* Claims about sign_txs *)

\* what sign_txs was called on, once it was called
SignTxsArgs == Unwrap(st_txs)
SignTxsOutcome == Unwrap(st_result)

\* sign_txs found the keys of every bond: no panic of look_up_sk_from
BondKeysFound == SignTxsOutcome.panic # "signing_failed"

\* C36: sign_txs panics when the validator_account section it is given is
\* not empty, validator txs being signed with a validator wallet elsewhere;
\* otherwise it returns the established accounts as given and one signed
\* bond for each unsigned bond, in the order given. Violated: with a
\* validator wallet sign_txs signs the validator txs and returns, and
\* without one it panics on a present section that is empty.
C36_PanicsOnValidatorAccounts ==
    IsSome(st_result) /\ BondKeysFound =>
        IF Txs(SignTxsArgs.validator_account) # << >>
        THEN SignTxsOutcome.panic # ""
        ELSE /\ SignTxsOutcome.panic = ""
             /\ Unwrap(SignTxsOutcome.value).established_account
                    = SignTxsArgs.established_account

\* what holds instead: sign_txs panics exactly when the validator_account
\* section is present and no validator wallet is given (or the key of a bond
\* is not found); otherwise it returns the established accounts as given,
\* one signed validator tx for each unsigned one and one signed bond for each
\* unsigned bond, in the order given
C36_PanicsWithoutValidatorWallet ==
    IsSome(st_result) /\ BondKeysFound =>
        /\ SignTxsOutcome.panic # ""
            <=> IsSome(SignTxsArgs.validator_account)
                /\ ~IsSome(st_validator_wallet)
        /\ SignTxsOutcome.panic = "" =>
            LET out == Unwrap(SignTxsOutcome.value)
            IN  /\ out.established_account = SignTxsArgs.established_account
                /\ IsSome(out.validator_account)
                    <=> IsSome(SignTxsArgs.validator_account)
                /\ Len(Txs(out.validator_account))
                    = Len(Txs(SignTxsArgs.validator_account))
                /\ \A n \in DOMAIN Txs(out.validator_account) :
                    Unsigned(Txs(out.validator_account)[n])
                        = Txs(SignTxsArgs.validator_account)[n]
                /\ IsSome(out.bond) <=> IsSome(SignTxsArgs.bond)
                /\ Len(Txs(out.bond)) = Len(Txs(SignTxsArgs.bond))
                /\ \A n \in DOMAIN Txs(out.bond) :
                    /\ Txs(out.bond)[n].data = Txs(SignTxsArgs.bond)[n]
                    /\ \A k \in DOMAIN Txs(out.bond)[n].signatures :
                        Txs(out.bond)[n].signatures[k]
                            \in {standalone_signature(key,
                                    data_to_sign(Txs(SignTxsArgs.bond)[n])) :
                                    key \in st_wallet}

\* sign_txs was given a validator wallet and two validator-account txs and
\* two different bonds, and returned them signed
C36_Witness ==
    /\ IsSome(st_result)
    /\ SignTxsOutcome.panic = ""
    /\ Len(Txs(SignTxsArgs.validator_account)) = 2
    /\ Len(Txs(SignTxsArgs.bond)) = 2
    /\ SignTxsArgs.bond[1][1] # SignTxsArgs.bond[1][2]
    /\ \A n \in DOMAIN Txs(SignTxsArgs.bond) :
        Unwrap(Unwrap(st_result).value.bond)[n].signatures # << >>

----------------------------------------------------------------------------
(* Claims about the parameters in storage *)

\* what read returns right after init_storage(p)
AsInitialized(p) ==
    [p EXCEPT
        !.vp_allowlist = [n \in DOMAIN @ |->
                            IF @[n] = "VpUser" THEN "vpuser"
                            ELSE IF @[n] = "TXHASH" THEN "txhash" ELSE @[n]],
        !.tx_allowlist = [n \in DOMAIN @ |->
                            IF @[n] = "TXHASH" THEN "txhash" ELSE @[n]],
        !.implicit_vp_code_hash = IF @ = None THEN Some("hash_zero") ELSE @]

\* C38: read right after init_storage(p), on any storage, succeeds and
\* returns the parameters of p, the ids of the two allowlists lowercased and
\* an absent implicit-VP code hash as the default hash; read fails with
\* ParametersMissing whenever one of its keys is absent, and returns the
\* stored values otherwise; each update function leaves every key but its
\* own as it was.
C38_ReadReturnsWhatInitStored ==
    /\ IsSome(ps_read) =>
        LET r == Unwrap(ps_read)
        IN  /\ r.calls > 0 /\ ps_calls[r.calls].fn = "init_storage"
                => r.result = ReadOk(AsInitialized(Unwrap(ps_parameters)))
            /\ ParameterKeys \ DOMAIN r.storage # {}
                => r.result = ParametersMissing
            /\ ParameterKeys \subseteq DOMAIN r.storage => r.result.ok
    /\ \A n \in DOMAIN ps_calls :
        LET call == ps_calls[n]
        IN  call.fn # "init_storage" =>
                /\ DOMAIN call.after = DOMAIN call.before \cup {call.key}
                /\ \A k \in DOMAIN call.before \ {call.key} :
                    call.after[k] = call.before[k]

\* init_storage was called with ids in capitals and no implicit-VP code hash
\* on a storage that lacked a key, and read returned the parameters
C38_Witness ==
    /\ IsSome(ps_read)
    /\ Unwrap(ps_read).calls = 1
    /\ ps_calls[1].fn = "init_storage"
    /\ ParameterKeys \ DOMAIN ps_calls[1].before # {}
    /\ "pos_params" \in DOMAIN ps_calls[1].before
    /\ Unwrap(ps_parameters).vp_allowlist = <<"vpuser", "TXHASH">>
    /\ Unwrap(ps_parameters).implicit_vp_code_hash = None
    /\ Unwrap(ps_read).result.ok

====
